---- MODULE Spec2Model ----
(***************************************************************************)
(* Model of the DMP risk-decision core: the rule engine (RuleEngine and    *)
(* its Impl), the system configuration store (SystemConfig) and the        *)
(* decision functions (RuleThresholds::make_decision,                      *)
(* DecisionHandler::process_risk_decision,                                 *)
(* DecisionContext::calculate_final_score).                                *)
(*                                                                         *)
(* Numbers: weights, scores and thresholds are finite integers; a score   *)
(* that the code computes as a quotient is kept as an exact fraction.      *)
(***************************************************************************)
EXTENDS Integers, Sequences, FiniteSets, TLC

(***************************************************************************)
(* Bounds of the model.                                                    *)
(***************************************************************************)
MaxFileChanges == 1
MaxCalls == 2

(***************************************************************************)
(* Threads.  Workers call evaluate_rules; "main" calls load_rules,         *)
(* enable/disable_hot_reload and reset_statistics; "watcher" is the        *)
(* hot-reload thread.  Every thread has its own thread_local cache.        *)
(***************************************************************************)
Workers == {"w1", "w2"}
Loaders == {"main", "watcher"}
Threads == Workers \cup Loaders

RuleIds == {"r1", "r2", "r3"}

VARIABLES
    \* ---- rule engine (RuleEngine::Impl) ----
    file,                 \* the watched rule file: [exists, doc, mtime]
    current_config_,      \* Impl::current_config_
    initialized_,         \* Impl::initialized_
    last_file_time_,      \* Impl::last_file_time_
    last_error_,          \* Impl::last_error_
    rule_stats_,          \* Impl::rule_stats_
    hot_reload_enabled_,  \* Impl::hot_reload_enabled_ (a watcher thread runs)
    tl_compiled_rules,    \* thread_local tl_compiled_rules, one per thread
    call,                 \* per worker: the evaluate_rules call in progress
    loader,               \* per loader thread: the load_rules_from_file call
    done_evals,           \* history: evaluations recorded in some rule_results
    budget,               \* how often the bounded operations have run
    \* ---- system configuration (SystemConfig) ----
    sys_file,             \* the TOML document on disk
    server_config_, feature_config_, logging_config_, monitoring_config_,
    last_modified_,       \* SystemConfig::last_modified_
    sys_hot_reload_enabled_,  \* SystemConfig::hot_reload_enabled_
    sys_last,             \* error code the last reload() returned
    sys_observer,         \* what SystemConfig's hot-reload observer has been called with
    \* ---- decision functions ----
    dec,                  \* input and output of the last decision function run
    handler,              \* process_decision_json: calls made, the last body and result, the metrics
    \* ---- pattern matcher (PatternMatcher::Impl and its backend) ----
    matcher,              \* loaded_patterns_, initialized_, last_error_, compiled_patterns_
    pm_last,              \* the last operation on the matcher and what it returned
    \* ---- hot-reload lifecycle (enable/disable_hot_reload and the watcher) ----
    hr,                   \* the flags and the thread handle of the watched artifact
    ctl,                  \* position of every thread that calls enable/disable
    wt,                   \* position of every watcher thread that was started
    \* ---- screening a request: pattern matcher, then rule evaluation ----
    screen,               \* the last request screened and what came of it
    \* ---- SystemConfig under config_mutex_: reload() against a getter ----
    rw,                   \* the mutex, reload()'s position, the getter's position and copy
    \* ---- the two mutexes of RuleEngine::Impl ----
    mx,                   \* who holds config_mutex_ and stats_mutex_, each thread's steps to come
    \* ---- TraceContext and the TraceScope objects of one thread ----
    trace                 \* current_trace_id_ and the scopes alive, innermost last

ruleVars == <<file, current_config_, initialized_, last_file_time_, last_error_,
              rule_stats_, hot_reload_enabled_, tl_compiled_rules, call, loader,
              done_evals, budget>>
sysVars == <<sys_file, server_config_, feature_config_, logging_config_,
             monitoring_config_, last_modified_, sys_hot_reload_enabled_, sys_last, sys_observer>>
decVars == <<dec, handler>>
pmVars == <<matcher, pm_last>>
hrVars == <<hr, ctl, wt>>
screenVars == <<screen>>
auxVars == <<rw, mx, trace>>
vars == <<ruleVars, sysVars, decVars, pmVars, hrVars, screenVars, auxVars>>

(***************************************************************************)
(* Rule files.  A document is what simdjson finds in the file.             *)
(***************************************************************************)
DefaultApprove == 30
DefaultReview == 70
DefaultWeight == 1

RawRule(id, expression, weight, enabled) ==
    [has_id |-> TRUE, id |-> id, has_expression |-> TRUE, expression |-> expression,
     has_weight |-> TRUE, weight |-> weight, has_enabled |-> TRUE, enabled |-> enabled]

DocA ==
    [wellformed |-> TRUE, has_rules |-> TRUE, has_thresholds |-> TRUE,
     approve_threshold |-> 30, review_threshold |-> 70,
     rules |-> << RawRule("r2", "customer_risk_score > 1", 1, TRUE),
                  RawRule("r1", "amount > 1", 2, TRUE) >>]

DocB ==
    [wellformed |-> TRUE, has_rules |-> TRUE, has_thresholds |-> TRUE,
     approve_threshold |-> 20, review_threshold |-> 60,
     rules |-> << RawRule("r1", "amount > 2", 3, TRUE),
                  [RawRule("r2", "", 5, TRUE) EXCEPT !.has_expression = FALSE],
                  RawRule("r3", "amount >", 4, TRUE),
                  [RawRule("", "amount > 1", 6, TRUE) EXCEPT !.has_id = FALSE],
                  RawRule("r2", "customer_risk_score > 1", 5, FALSE) >>]

DocBadJson ==
    [wellformed |-> FALSE, has_rules |-> FALSE, has_thresholds |-> FALSE,
     approve_threshold |-> 0, review_threshold |-> 0, rules |-> << >>]

DocNoRules ==
    [wellformed |-> TRUE, has_rules |-> FALSE, has_thresholds |-> TRUE,
     approve_threshold |-> 10, review_threshold |-> 20, rules |-> << >>]

\* thresholds in the wrong order
DocInverted ==
    [wellformed |-> TRUE, has_rules |-> TRUE, has_thresholds |-> TRUE,
     approve_threshold |-> 70, review_threshold |-> 30,
     rules |-> << RawRule("r1", "amount > 1", 2, TRUE) >>]

\* two entries with the same id
DocDuplicate ==
    [wellformed |-> TRUE, has_rules |-> TRUE, has_thresholds |-> TRUE,
     approve_threshold |-> 30, review_threshold |-> 70,
     rules |-> << RawRule("r1", "amount > 1", 2, TRUE),
                  RawRule("r1", "amount > 2", 3, TRUE) >>]

Docs == << DocA, DocB, DocBadJson, DocNoRules, DocInverted, DocDuplicate >>
DocIds == 1..Len(Docs)

\* the documents that the evaluating specifications put into the file
EvalDocIds == 1..4

(***************************************************************************)
(* Requests.  Only the fields that the rule expressions of the documents   *)
(* read and that RuleContext::is_valid tests are kept.                     *)
(***************************************************************************)
Request(amount, risk, customer) ==
    [amount |-> amount, customer_risk_score |-> risk, customer_id |-> customer,
     merchant_id |-> "m1", currency |-> "USD"]

Requests == { Request(2, 0, "c1"), Request(3, 2, "c1"), Request(0, 0, "") }

NoRequest == Request(0, 0, "")

\* a request with each field that is_valid tests missing in turn
RejectableRequests ==
    { Request(3, 2, "c1"),
      Request(3, 2, ""),
      [Request(3, 2, "c1") EXCEPT !.merchant_id = ""],
      [Request(3, 2, "c1") EXCEPT !.currency = ""],
      Request(0, 2, "c1"),
      Request(-1, 2, "c1") }

\* RuleContext::from_transaction
from_transaction(request) ==
    [amount |-> request.amount,
     currency |-> request.currency,
     merchant_id |-> request.merchant_id,
     customer_id |-> request.customer_id,
     customer_risk_score |-> request.customer_risk_score,
     amount_sum |-> request.amount,
     ip_blacklist_match |-> 0]

\* (faulty variant) is_valid that does not look at the currency
is_valid_without_currency(context) ==
    /\ context.customer_id # ""
    /\ context.merchant_id # ""
    /\ context.amount > 0

\* RuleContext::is_valid
is_valid(context) ==
    /\ context.customer_id # ""
    /\ context.merchant_id # ""
    /\ context.currency # ""
    /\ context.amount > 0

(***************************************************************************)
(* Sorting by weight, descending (std::sort with a.weight > b.weight).     *)
(***************************************************************************)
RECURSIVE InsertByWeight(_, _)
InsertByWeight(rule, sorted) ==
    IF sorted = << >> THEN << rule >>
    ELSE IF rule.weight > Head(sorted).weight THEN << rule >> \o sorted
    ELSE << Head(sorted) >> \o InsertByWeight(rule, Tail(sorted))

\* (faulty variant) the rules stay in document order
SortByWeight_document_order(rules) == rules

RECURSIVE SortByWeight(_)
SortByWeight(rules) ==
    IF rules = << >> THEN << >>
    ELSE InsertByWeight(rules[Len(rules)], SortByWeight(SubSeq(rules, 1, Len(rules) - 1)))

\* The loop over rules_array: entries without id or expression are skipped,
\* weight defaults to 1.0 and enabled to true.
RECURSIVE parse_rules(_)
parse_rules(raw) ==
    IF raw = << >> THEN << >>
    ELSE LET e == Head(raw) IN
         IF ~e.has_id \/ ~e.has_expression THEN parse_rules(Tail(raw))
         ELSE << [id |-> e.id, expression |-> e.expression,
                  weight |-> IF e.has_weight THEN e.weight ELSE DefaultWeight,
                  enabled |-> IF e.has_enabled THEN e.enabled ELSE TRUE] >>
              \o parse_rules(Tail(raw))

\* new_config as load_rules_from_file builds it from a document with a rules array
new_config(doc) ==
    [rules |-> SortByWeight(parse_rules(doc.rules)),
     thresholds |->
        IF doc.has_thresholds
        THEN [approve_threshold |-> doc.approve_threshold,
              review_threshold |-> doc.review_threshold]
        ELSE [approve_threshold |-> DefaultApprove, review_threshold |-> DefaultReview]]

EmptyConfig ==
    [rules |-> << >>,
     thresholds |-> [approve_threshold |-> DefaultApprove,
                     review_threshold |-> DefaultReview]]

\* RuleConfig::get_enabled_rules
get_enabled_rules(config) == SelectSeq(config.rules, LAMBDA rule : rule.enabled)

(***************************************************************************)
(* Expressions.  exprtk::parser::compile on the expression texts that the  *)
(* documents use: a comparison of one bound variable with a number, or a   *)
(* text that does not parse.                                               *)
(***************************************************************************)
parser_compile(expression) ==
    CASE expression = "amount > 1" ->
            [ok |-> TRUE, var |-> "amount", limit |-> 1]
      [] expression = "amount > 2" ->
            [ok |-> TRUE, var |-> "amount", limit |-> 2]
      [] expression = "customer_risk_score > 1" ->
            [ok |-> TRUE, var |-> "customer_risk_score", limit |-> 1]
      [] expression = "ip_blacklist_match > 0" ->
            [ok |-> TRUE, var |-> "ip_blacklist_match", limit |-> 0]
      [] OTHER ->
            [ok |-> FALSE, var |-> "", limit |-> 0]

\* Impl::compile_rule: nullptr when the parser rejects the expression
compile_rule(expression) == parser_compile(expression).ok

(***************************************************************************)
(* The thread_local cache.  An entry remembers the expression text it was  *)
(* compiled from and whether the variable nodes it points to are the ones  *)
(* of the symbol table as (re)built for the current call: every            *)
(* initialize_symbol_table starts with tl_symbol_table.clear(), which      *)
(* destroys the nodes the entries cached so far were compiled against.     *)
(***************************************************************************)
NoEntry == [present |-> FALSE, expression |-> "", bound |-> FALSE]
EmptyCache == [id \in RuleIds |-> NoEntry]

\* tl_symbol_table.clear() followed by the add_variable calls
initialize_symbol_table(cache) ==
    [id \in RuleIds |-> IF cache[id].present
                        THEN [cache[id] EXCEPT !.bound = FALSE]
                        ELSE cache[id]]

\* Values a read through a dead reference may produce.
DanglingValues == {0, 3}

(***************************************************************************)
(* What expression->value() reads for a variable.  "amount" and            *)
(* "amount_sum" are bound to fields of the RuleContext of the running      *)
(* evaluate_rules call, every other number to a local of                   *)
(* initialize_symbol_table that is dead once that function has returned.   *)
(* An entry compiled in an earlier call reads through destroyed nodes.     *)
(***************************************************************************)
BoundToContext(var) == var \in {"amount", "amount_sum"}

ReadValues(entry, var, context) ==
    IF entry.bound /\ BoundToContext(var)
    THEN { context[var] }
    ELSE DanglingValues \cup { context[var] }

\* the double that value() returns for a compiled comparison
ExprValue(compiled, v) == IF v > compiled.limit THEN 1 ELSE 0

\* bool triggered = (result > 0.5)
Triggered(result) == 2 * result > 1

(***************************************************************************)
(* Statistics table.                                                       *)
(***************************************************************************)
NoStats == [present |-> FALSE, evaluation_count |-> 0, hit_count |-> 0]
ZeroStats == [present |-> TRUE, evaluation_count |-> 0, hit_count |-> 0]

\* load_rules_from_file: "Update rule statistics"
RECURSIVE update_rule_stats(_, _)
update_rule_stats(stats, rules) ==
    IF rules = << >> THEN stats
    ELSE LET id == Head(rules).id IN
         update_rule_stats(IF stats[id].present THEN stats
                           ELSE [stats EXCEPT ![id] = ZeroStats],
                           Tail(rules))

\* (faulty variant) the statistics block also counts an evaluation for the failed rule
init_failed_rule_stats_counting(stats, id) ==
    [stats EXCEPT ![id] = [present |-> TRUE,
                           evaluation_count |-> @.evaluation_count + 1,
                           hit_count |-> @.hit_count]]

\* (faulty variant) the counters are assigned instead of incremented
record_evaluation_assign(stats, id, triggered) ==
    [stats EXCEPT ![id] =
        [present |-> TRUE, evaluation_count |-> 1,
         hit_count |-> IF triggered THEN 1 ELSE 0]]

\* evaluate_rules: "Initialize statistics even for failed rules"
init_failed_rule_stats(stats, id) ==
    IF stats[id].present THEN stats ELSE [stats EXCEPT ![id] = ZeroStats]

\* evaluate_rules: "Update rule statistics" (under stats_mutex_)
record_evaluation(stats, id, triggered) ==
    [stats EXCEPT ![id] =
        [present |-> TRUE,
         evaluation_count |-> @.evaluation_count + 1,
         hit_count |-> IF triggered THEN @.hit_count + 1 ELSE @.hit_count]]

\* RuleEngine::reset_statistics: zero the counters of every entry
reset_all(stats) ==
    [id \in RuleIds |-> IF stats[id].present THEN ZeroStats ELSE stats[id]]

\* (faulty variant) the new rules are pushed onto the active list, which is not
\* emptied first
config_after_load_in_place(old, doc) ==
    IF doc.has_rules
    THEN [new_config(doc) EXCEPT
             !.rules = SortByWeight(old.rules \o parse_rules(doc.rules))]
    ELSE old

\* (faulty variant) the thresholds are stored into the active configuration as they
\* are parsed, before the rules array is looked at
config_after_load_thresholds_first(old, doc) ==
    IF doc.has_rules THEN new_config(doc)
    ELSE [old EXCEPT !.thresholds = new_config(doc).thresholds]

\* (faulty variant) every rule of the new configuration gets a fresh statistics entry
stats_after_load_fresh(stats, doc) ==
    IF doc.has_rules
    THEN [id \in RuleIds |->
            IF \E i \in 1..Len(new_config(doc).rules) : new_config(doc).rules[i].id = id
            THEN ZeroStats ELSE stats[id]]
    ELSE stats

\* load_rules_from_file: tl_compiled_rules.clear() runs on the calling thread
clear_cache_after_load(caches, t) == [caches EXCEPT ![t] = EmptyCache]

\* load_rules_from_file: current_config_ once a well-formed document is handled
config_after_load(old, doc) ==
    IF doc.has_rules THEN new_config(doc) ELSE old

\* load_rules_from_file: rule_stats_ once a well-formed document is handled
stats_after_load(stats, doc) ==
    IF doc.has_rules THEN update_rule_stats(stats, new_config(doc).rules) ELSE stats

EmptyMetrics ==
    [rule_results |-> << >>, total_score |-> 0, rules_triggered |-> 0,
     rules_evaluated |-> 0]

IdleCall ==
    [pc |-> "idle", request |-> NoRequest, enabled_rules |-> << >>, idx |-> 1,
     metrics |-> EmptyMetrics, skipped |-> << >>]

IdleLoader == [pc |-> "idle", content |-> 0]

(***************************************************************************)
(* Initial state: a constructed RuleEngine (no rules loaded), a rule file  *)
(* on disk, a SystemConfig loaded from a valid document.                   *)
(***************************************************************************)
InitRule ==
    /\ file = [exists |-> TRUE, doc |-> 1, mtime |-> 1]
    /\ current_config_ = EmptyConfig
    /\ initialized_ = FALSE
    /\ last_file_time_ = 0
    /\ last_error_ = ""
    /\ rule_stats_ = [id \in RuleIds |-> NoStats]
    /\ hot_reload_enabled_ = FALSE
    /\ tl_compiled_rules = [t \in Threads |-> EmptyCache]
    /\ call = [w \in Workers |-> IdleCall]
    /\ loader = [t \in Loaders |-> IdleLoader]
    /\ done_evals = [id \in RuleIds |-> [evaluation_count |-> 0, hit_count |-> 0]]
    /\ budget = [calls |-> 0]

(***************************************************************************)
(* The environment rewrites or removes the rule file; mtime is the         *)
(* modification time a rewrite gives it (the clock moves on a removal too).*)
(***************************************************************************)
FileWrite(d) ==
    /\ file.mtime <= MaxFileChanges
    /\ file' = [exists |-> TRUE, doc |-> d, mtime |-> file.mtime + 1]
    /\ UNCHANGED <<budget, current_config_, initialized_, last_file_time_, last_error_,
                   rule_stats_, hot_reload_enabled_, tl_compiled_rules, call,
                   loader, done_evals>>
    /\ UNCHANGED <<sysVars, decVars, pmVars, hrVars, screenVars, auxVars>>

FileRemove ==
    /\ file.mtime <= MaxFileChanges
    /\ file.exists
    /\ file' = [exists |-> FALSE, doc |-> file.doc, mtime |-> file.mtime + 1]
    /\ UNCHANGED <<budget, current_config_, initialized_, last_file_time_, last_error_,
                   rule_stats_, hot_reload_enabled_, tl_compiled_rules, call,
                   loader, done_evals>>
    /\ UNCHANGED <<sysVars, decVars, pmVars, hrVars, screenVars, auxVars>>

(***************************************************************************)
(* load_rules_from_file, first part: the exists() test and the read of the *)
(* file content.  "main" runs it for load_rules; "watcher" runs it from    *)
(* hot_reload_worker once it sees a modification time other than           *)
(* last_file_time_.                                                        *)
(***************************************************************************)
LoadRead(t) ==
    /\ loader[t].pc = "idle"
    /\ t = "watcher" =>
          hot_reload_enabled_ /\ file.exists /\ file.mtime # last_file_time_
    /\ loader' = [loader EXCEPT ![t] =
          IF file.exists
          THEN [pc |-> "read", content |-> file.doc]
          ELSE IdleLoader]  \* "Configuration file does not exist"
    /\ UNCHANGED <<budget, file, current_config_, initialized_, last_file_time_,
                   last_error_, rule_stats_, hot_reload_enabled_,
                   tl_compiled_rules, call, done_evals>>
    /\ UNCHANGED <<sysVars, decVars, pmVars, hrVars, screenVars, auxVars>>

(***************************************************************************)
(* load_rules_from_file, second part: parse, record the modification time, *)
(* build new_config, swap under config_mutex_ and stats_mutex_, clear the  *)
(* calling thread's cache, set initialized_.                               *)
(***************************************************************************)
LoadFinish(t) ==
    /\ loader[t].pc = "read"
    /\ LET doc == Docs[loader[t].content] IN
       IF ~doc.wellformed
       THEN \* simdjson parse error
            UNCHANGED <<current_config_, initialized_, last_file_time_,
                        last_error_, rule_stats_, tl_compiled_rules>>
       ELSE IF ~file.exists
       THEN \* last_write_time throws: the catch block
            /\ last_error_' = "Exception loading rules"
            /\ UNCHANGED <<current_config_, initialized_, last_file_time_,
                           rule_stats_, tl_compiled_rules>>
       ELSE /\ last_file_time_' = file.mtime
            /\ current_config_' = config_after_load(current_config_, doc)
            /\ rule_stats_' = stats_after_load(rule_stats_, doc)
            /\ IF doc.has_rules
               THEN /\ tl_compiled_rules' = clear_cache_after_load(tl_compiled_rules, t)
                    /\ initialized_' = TRUE
               ELSE \* "Missing or invalid 'rules' array"
                    UNCHANGED <<tl_compiled_rules, initialized_>>
            /\ UNCHANGED last_error_
    /\ loader' = [loader EXCEPT ![t] = IdleLoader]
    /\ UNCHANGED <<file, hot_reload_enabled_, call, done_evals, budget>>
    /\ UNCHANGED <<sysVars, decVars, pmVars, hrVars, screenVars, auxVars>>

(***************************************************************************)
(* RuleEngine::enable_hot_reload / disable_hot_reload.  disable joins the  *)
(* watcher, so it returns only when the watcher is not inside a load.      *)
(***************************************************************************)
EnableHotReload ==
    /\ ~hot_reload_enabled_
    /\ initialized_
    /\ hot_reload_enabled_' = TRUE
    /\ UNCHANGED <<file, current_config_, initialized_, last_file_time_,
                   last_error_, rule_stats_, tl_compiled_rules, call, loader,
                   done_evals, budget>>
    /\ UNCHANGED <<sysVars, decVars, pmVars, hrVars, screenVars, auxVars>>

DisableHotReload ==
    /\ hot_reload_enabled_
    /\ loader["watcher"].pc = "idle"
    /\ hot_reload_enabled_' = FALSE
    /\ UNCHANGED <<file, current_config_, initialized_, last_file_time_,
                   last_error_, rule_stats_, tl_compiled_rules, call, loader,
                   done_evals, budget>>
    /\ UNCHANGED <<sysVars, decVars, pmVars, hrVars, screenVars, auxVars>>

(***************************************************************************)
(* RuleEngine::evaluate_rules, up to and including the copy of the enabled *)
(* rules under the shared lock.                                            *)
(***************************************************************************)
EvalBegin(w, request) ==
    /\ call[w].pc = "idle"
    /\ budget.calls < MaxCalls
    /\ budget' = [budget EXCEPT !.calls = @ + 1]
    /\ IF ~initialized_ \/ ~is_valid(from_transaction(request))
       THEN \* the value-initialised metrics are what the call returns
            /\ call' = [call EXCEPT ![w] =
                  [IdleCall EXCEPT !.pc = "rejected", !.request = request]]
            /\ UNCHANGED tl_compiled_rules
       ELSE /\ tl_compiled_rules' = [tl_compiled_rules EXCEPT ![w] =
                  initialize_symbol_table(@)]
            /\ call' = [call EXCEPT ![w] =
                  [pc |-> "eval", request |-> request,
                   enabled_rules |-> get_enabled_rules(current_config_),
                   idx |-> 1,
                   metrics |-> [EmptyMetrics EXCEPT !.rules_evaluated =
                                   Len(get_enabled_rules(current_config_))],
                   skipped |-> << >>]]
    /\ UNCHANGED <<file, current_config_, initialized_, last_file_time_,
                   last_error_, rule_stats_, hot_reload_enabled_, loader,
                   done_evals>>
    /\ UNCHANGED <<sysVars, decVars, pmVars, hrVars, screenVars, auxVars>>

\* metrics after one rule has been evaluated
add_result(metrics, rule, triggered, compiled_from) ==
    [metrics EXCEPT
        !.rule_results = Append(@, [rule_id |-> rule.id, triggered |-> triggered,
                                    contribution_score |->
                                        IF triggered THEN rule.weight ELSE 0,
                                    compiled_from |-> compiled_from]),
        !.total_score = IF triggered THEN @ + rule.weight ELSE @,
        !.rules_triggered = IF triggered THEN @ + 1 ELSE @]

(***************************************************************************)
(* One iteration of the loop over enabled_rules: get or compile, evaluate, *)
(* append the result, update the statistics.                               *)
(***************************************************************************)
EvalRule(w) ==
    /\ call[w].pc = "eval"
    /\ call[w].idx <= Len(call[w].enabled_rules)
    /\ LET rule == call[w].enabled_rules[call[w].idx]
           cached == tl_compiled_rules[w][rule.id]
           context == from_transaction(call[w].request)
       IN
       IF ~cached.present /\ ~compile_rule(rule.expression)
       THEN \* compile failed: statistics entry, then continue
            /\ rule_stats_' = init_failed_rule_stats(rule_stats_, rule.id)
            /\ call' = [call EXCEPT ![w].idx = @ + 1,
                                    ![w].skipped = Append(@, rule.id)]
            /\ UNCHANGED <<tl_compiled_rules, done_evals>>
       ELSE LET entry == IF cached.present THEN cached
                         ELSE [present |-> TRUE, expression |-> rule.expression,
                               bound |-> TRUE]
                compiled == parser_compile(entry.expression)
            IN
            \E v \in ReadValues(entry, compiled.var, context) :
               LET triggered == Triggered(ExprValue(compiled, v)) IN
               /\ tl_compiled_rules' = [tl_compiled_rules EXCEPT ![w][rule.id] = entry]
               /\ call' = [call EXCEPT
                     ![w].idx = @ + 1,
                     ![w].metrics = add_result(@, rule, triggered, entry.expression)]
               /\ rule_stats_' = record_evaluation(rule_stats_, rule.id, triggered)
               /\ done_evals' = [done_evals EXCEPT ![rule.id] =
                     [evaluation_count |-> @.evaluation_count + 1,
                      hit_count |-> IF triggered THEN @.hit_count + 1
                                    ELSE @.hit_count]]
    /\ UNCHANGED <<file, current_config_, initialized_, last_file_time_,
                   last_error_, hot_reload_enabled_, loader, budget>>
    /\ UNCHANGED <<sysVars, decVars, pmVars, hrVars, screenVars, auxVars>>

\* evaluate_rules returns its metrics
EvalReturn(w) ==
    /\ call[w].pc \in {"eval", "rejected"}
    /\ call[w].idx > Len(call[w].enabled_rules)
    /\ call' = [call EXCEPT ![w] = IdleCall]
    /\ UNCHANGED <<file, current_config_, initialized_, last_file_time_,
                   last_error_, rule_stats_, hot_reload_enabled_,
                   tl_compiled_rules, loader, done_evals, budget>>
    /\ UNCHANGED <<sysVars, decVars, pmVars, hrVars, screenVars, auxVars>>

\* RuleEngine::reset_statistics
reset_statistics ==
    /\ rule_stats_' = reset_all(rule_stats_)
    /\ done_evals' = [id \in RuleIds |-> [evaluation_count |-> 0, hit_count |-> 0]]
    /\ UNCHANGED <<file, current_config_, initialized_, last_file_time_,
                   last_error_, hot_reload_enabled_, tl_compiled_rules, call,
                   loader, budget>>
    /\ UNCHANGED <<sysVars, decVars, pmVars, hrVars, screenVars, auxVars>>

(***************************************************************************)
(* SystemConfig.  Of every section the model keeps the options that decide *)
(* its validity in the documents below; the options left out stay at their *)
(* (valid) defaults.  A table section is either absent or gives values.    *)
(***************************************************************************)
\* extract_integer<uint16_t>: static_cast<uint16_t>(int64_t)
Cast16(v) == v % 65536

\* extract_integer<uint32_t>: the documents below give the 32-bit options
\* values of 0 .. 2^31 - 1, which the conversion keeps
Cast32(v) == v

\* is_valid_port
is_valid_port(port) == port > 0 /\ port <= 65535

\* is_valid_log_level
is_valid_log_level(level) ==
    level \in {"trace", "debug", "info", "warn", "error", "critical", "off"}

Absent == [present |-> FALSE]

ServerTables ==
    { Absent,
      [present |-> TRUE, port |-> 9090, threads |-> 4],
      [present |-> TRUE, port |-> 9090, threads |-> 65],
      [present |-> TRUE, port |-> 74616, threads |-> 4],
      [present |-> TRUE, port |-> -1, threads |-> 4] }
FeatureTables ==
    { Absent,
      [present |-> TRUE, cache_size_mb |-> 256],
      [present |-> TRUE, cache_size_mb |-> 0] }
LoggingTables ==
    { Absent,
      [present |-> TRUE, level |-> "debug", max_files |-> 5],
      [present |-> TRUE, level |-> "verbose", max_files |-> 5] }
MonitoringTables ==
    { Absent,
      [present |-> TRUE, prometheus_port |-> 9100, metrics_path |-> << "/", "m" >>],
      [present |-> TRUE, prometheus_port |-> 9100, metrics_path |-> << "m" >>] }

TomlTable(server, features, logging, monitoring) ==
    [wellformed |-> TRUE, server |-> server, features |-> features,
     logging |-> logging, monitoring |-> monitoring]

MalformedToml == [TomlTable(Absent, Absent, Absent, Absent) EXCEPT !.wellformed = FALSE]

TomlDocs ==
    { TomlTable(s, f, l, m) :
        s \in ServerTables, f \in FeatureTables,
        l \in LoggingTables, m \in MonitoringTables } \cup { MalformedToml }

\* the default member initialisers of the four structs
DefaultServerConfig == [port |-> 8080, threads |-> 8]
DefaultFeatureConfig == [cache_size_mb |-> 512]
DefaultLoggingConfig == [level |-> "info", max_files |-> 10]
DefaultMonitoringConfig == [prometheus_port |-> 9090, metrics_path |-> << "/", "metrics" >>]

ServerConfig_is_valid(config) ==
    is_valid_port(config.port) /\ config.threads > 0 /\ config.threads <= 64

FeatureConfig_is_valid(config) ==
    config.cache_size_mb > 0 /\ config.cache_size_mb <= 16384

LoggingConfig_is_valid(config) ==
    is_valid_log_level(config.level) /\ config.max_files > 0 /\ config.max_files <= 100

MonitoringConfig_is_valid(config) ==
    /\ is_valid_port(config.prometheus_port)
    /\ config.metrics_path # << >>
    /\ config.metrics_path[1] = "/"

Checked(config, valid) ==
    [value |-> config,
     error_code |-> IF valid THEN "SUCCESS" ELSE "INVALID_REQUEST"]

ServerConfig_from_toml(table) ==
    LET config == IF table.server.present
                  THEN [port |-> Cast16(table.server.port),
                        threads |-> Cast32(table.server.threads)]
                  ELSE DefaultServerConfig
    IN Checked(config, ServerConfig_is_valid(config))

FeatureConfig_from_toml(table) ==
    LET config == IF table.features.present
                  THEN [cache_size_mb |-> Cast32(table.features.cache_size_mb)]
                  ELSE DefaultFeatureConfig
    IN Checked(config, FeatureConfig_is_valid(config))

LoggingConfig_from_toml(table) ==
    LET config == IF table.logging.present
                  THEN [level |-> table.logging.level,
                        max_files |-> Cast32(table.logging.max_files)]
                  ELSE DefaultLoggingConfig
    IN Checked(config, LoggingConfig_is_valid(config))

MonitoringConfig_from_toml(table) ==
    LET config == IF table.monitoring.present
                  THEN [prometheus_port |-> Cast16(table.monitoring.prometheus_port),
                        metrics_path |-> table.monitoring.metrics_path]
                  ELSE DefaultMonitoringConfig
    IN Checked(config, MonitoringConfig_is_valid(config))

(***************************************************************************)
(* SystemConfig::load_from_toml on the members `sections`: each section is *)
(* assigned as soon as it has been read and found valid, and the first     *)
(* invalid one returns.                                                    *)
(***************************************************************************)
load_from_toml(sections, table) ==
    LET server_result == ServerConfig_from_toml(table)
        feature_result == FeatureConfig_from_toml(table)
        logging_result == LoggingConfig_from_toml(table)
        monitoring_result == MonitoringConfig_from_toml(table)
        s1 == [sections EXCEPT !.server = server_result.value]
        s2 == [s1 EXCEPT !.feature = feature_result.value]
        s3 == [s2 EXCEPT !.logging = logging_result.value]
        s4 == [s3 EXCEPT !.monitoring = monitoring_result.value]
    IN
    IF server_result.error_code # "SUCCESS"
    THEN [sections |-> sections, error_code |-> server_result.error_code]
    ELSE IF feature_result.error_code # "SUCCESS"
    THEN [sections |-> s1, error_code |-> feature_result.error_code]
    ELSE IF logging_result.error_code # "SUCCESS"
    THEN [sections |-> s2, error_code |-> logging_result.error_code]
    ELSE IF monitoring_result.error_code # "SUCCESS"
    THEN [sections |-> s3, error_code |-> monitoring_result.error_code]
    ELSE [sections |-> s4, error_code |-> "SUCCESS"]

Sections ==
    [server |-> server_config_, feature |-> feature_config_,
     logging |-> logging_config_, monitoring |-> monitoring_config_]

\* SystemConfig::load_from_file of a document with no section: all defaults
InitSys ==
    /\ sys_file = [exists |-> TRUE, mtime |-> 1,
                   table |-> TomlTable(Absent, Absent, Absent, Absent)]
    /\ server_config_ = DefaultServerConfig
    /\ feature_config_ = DefaultFeatureConfig
    /\ logging_config_ = DefaultLoggingConfig
    /\ monitoring_config_ = DefaultMonitoringConfig
    /\ last_modified_ = 1
    /\ sys_hot_reload_enabled_ = FALSE
    /\ sys_last = "SUCCESS"
    /\ sys_observer = [by_watcher |-> FALSE, configs |-> << >>]

SysFileWrite(table) ==
    /\ sys_file.mtime <= MaxFileChanges
    /\ sys_file' = [exists |-> TRUE, mtime |-> sys_file.mtime + 1, table |-> table]
    /\ UNCHANGED <<server_config_, feature_config_, logging_config_,
                   monitoring_config_, last_modified_, sys_hot_reload_enabled_,
                   sys_last, sys_observer>>
    /\ UNCHANGED <<ruleVars, decVars, pmVars, hrVars, screenVars, auxVars>>

SysFileRemove ==
    /\ sys_file.mtime <= MaxFileChanges
    /\ sys_file.exists
    /\ sys_file' = [sys_file EXCEPT !.exists = FALSE, !.mtime = @ + 1]
    /\ UNCHANGED <<server_config_, feature_config_, logging_config_,
                   monitoring_config_, last_modified_, sys_hot_reload_enabled_,
                   sys_last, sys_observer>>
    /\ UNCHANGED <<ruleVars, decVars, pmVars, hrVars, screenVars, auxVars>>

\* SystemConfig::reload
reload ==
    /\ IF ~sys_file.exists
       THEN /\ sys_last' = "INVALID_REQUEST"
            /\ UNCHANGED <<server_config_, feature_config_, logging_config_,
                           monitoring_config_, last_modified_>>
       ELSE IF ~sys_file.table.wellformed
       THEN /\ sys_last' = "INVALID_JSON_FORMAT"
            /\ UNCHANGED <<server_config_, feature_config_, logging_config_,
                           monitoring_config_, last_modified_>>
       ELSE LET load_result == load_from_toml(Sections, sys_file.table) IN
            /\ server_config_' = load_result.sections.server
            /\ feature_config_' = load_result.sections.feature
            /\ logging_config_' = load_result.sections.logging
            /\ monitoring_config_' = load_result.sections.monitoring
            /\ sys_last' = load_result.error_code
            /\ last_modified_' = IF load_result.error_code = "SUCCESS"
                                 THEN sys_file.mtime ELSE last_modified_
    /\ UNCHANGED <<sys_file, sys_hot_reload_enabled_>>
    /\ UNCHANGED <<ruleVars, decVars, pmVars, hrVars, screenVars, auxVars>>

\* SystemConfig::is_file_modified
is_file_modified == sys_file.exists /\ sys_file.mtime > last_modified_

\* reload() called by the program itself: no observer is involved
SysReload ==
    /\ reload
    /\ sys_observer' = [sys_observer EXCEPT !.by_watcher = FALSE]

\* SystemConfig::hot_reload_worker: one round that finds the file modified;
\* after a reload without error hot_reload_callback_(*this) hands the object,
\* as it is then, to the observer
SysWatcherReload ==
    /\ sys_hot_reload_enabled_
    /\ is_file_modified
    /\ reload
    /\ sys_observer' =
          [by_watcher |-> TRUE,
           configs |-> IF sys_last' = "SUCCESS"
                       THEN Append(sys_observer.configs, Sections')
                       ELSE sys_observer.configs]

\* SystemConfig::enable_hot_reload / disable_hot_reload
SysEnableHotReload ==
    /\ ~sys_hot_reload_enabled_
    /\ sys_hot_reload_enabled_' = TRUE
    /\ UNCHANGED <<sys_file, server_config_, feature_config_, logging_config_,
                   monitoring_config_, last_modified_, sys_last, sys_observer>>
    /\ UNCHANGED <<ruleVars, decVars, pmVars, hrVars, screenVars, auxVars>>

SysDisableHotReload ==
    /\ sys_hot_reload_enabled_
    /\ sys_hot_reload_enabled_' = FALSE
    /\ UNCHANGED <<sys_file, server_config_, feature_config_, logging_config_,
                   monitoring_config_, last_modified_, sys_last, sys_observer>>
    /\ UNCHANGED <<ruleVars, decVars, pmVars, hrVars, screenVars, auxVars>>

NextConfig ==
    \/ \E table \in TomlDocs : SysFileWrite(table)
    \/ SysFileRemove
    \/ SysReload
    \/ SysWatcherReload
    \/ SysEnableHotReload
    \/ SysDisableHotReload

\* no decision function has been called, no request body handled
NoBody == [length |-> 0, wellformed |-> FALSE, has_fields |-> FALSE,
           request_id |-> "", amount |-> 0, merchant_category |-> 0]
NoResult == [error_code |-> "NONE", error_message |-> "", decision |-> "NONE"]

InitHandler ==
    handler = [requests |-> 0, request_json |-> NoBody, result |-> NoResult,
               decisions_total |-> 0, errors_total |-> 0, parsed |-> FALSE]

InitDecIdle == dec = [phase |-> "idle"] /\ InitHandler

\* The configuration store: the file changes, reload() runs directly or from
\* the watcher.
(***************************************************************************)
(* SystemConfig under config_mutex_.  reload() takes the mutex exclusively *)
(* around load_from_toml; a getter takes it shared around the copy it      *)
(* returns.  Assigning or copying a struct is one step per member.         *)
(***************************************************************************)
SectionNames == <<"server", "feature", "logging", "monitoring">>

\* the members of the four structs, in declaration order
FieldOrder ==
    [server |-> <<"port", "threads">>,
     feature |-> <<"cache_size_mb">>,
     logging |-> <<"level", "max_files">>,
     monitoring |-> <<"prometheus_port", "metrics_path">>]

RwDocs ==
    { TomlTable(s, Absent, l, Absent) :
        s \in { Absent,
                [present |-> TRUE, port |-> 9090, threads |-> 4],
                [present |-> TRUE, port |-> 9090, threads |-> 65] },
        l \in LoggingTables }

\* (faulty variant) the getter does not wait for the writer
shared_lock_acquirable_always(mutex) == TRUE

\* std::shared_lock<std::shared_mutex>: no thread holds the mutex exclusively
shared_lock_acquirable(mutex) == ~mutex.writer

\* std::unique_lock<std::shared_mutex>: no thread holds the mutex at all
unique_lock_acquirable(mutex) == ~mutex.writer /\ mutex.readers = 0

\* the member assignments of `section_config_ = result.value`
MemberWrites(section, value) ==
    [i \in 1..Len(FieldOrder[section]) |->
        <<section, FieldOrder[section][i], value[FieldOrder[section][i]]>>]

\* the member assignments load_from_toml(table) makes, in order: those of
\* the sections before the first one that is not valid
load_from_toml_writes(table) ==
    LET results == <<ServerConfig_from_toml(table), FeatureConfig_from_toml(table),
                     LoggingConfig_from_toml(table), MonitoringConfig_from_toml(table)>>
        assigned(i) == \A k \in 1..i : results[k].error_code = "SUCCESS"
        writes(i) == IF assigned(i) THEN MemberWrites(SectionNames[i], results[i].value)
                     ELSE << >>
    IN writes(1) \o writes(2) \o writes(3) \o writes(4)

NoGetter == [pc |-> "idle", section |-> "server", rest |-> << >>,
             copy |-> << >>, whole |-> {}]

InitRw ==
    rw = [config_mutex_ |-> [writer |-> FALSE, readers |-> 0],
          reload_pc |-> "idle", writes |-> << >>, error_code |-> "SUCCESS",
          stable |-> [server |-> DefaultServerConfig, feature |-> DefaultFeatureConfig,
                      logging |-> DefaultLoggingConfig,
                      monitoring |-> DefaultMonitoringConfig],
          get |-> NoGetter]


\* reload() of a file that is there and parses, up to the unique_lock
RwReloadLock ==
    /\ rw.reload_pc = "idle"
    /\ sys_file.exists /\ sys_file.table.wellformed
    /\ unique_lock_acquirable(rw.config_mutex_)
    /\ rw' = [rw EXCEPT !.config_mutex_.writer = TRUE,
                        !.reload_pc = "load_from_toml",
                        !.writes = load_from_toml_writes(sys_file.table),
                        !.error_code = load_from_toml(Sections, sys_file.table).error_code]
    /\ UNCHANGED sysVars
    /\ UNCHANGED <<ruleVars, decVars, pmVars, hrVars, screenVars, mx, trace>>

\* one member assignment of load_from_toml; `stable` and `whole` take the
\* section's value once its last member is written
RwReloadAssign ==
    /\ rw.reload_pc = "load_from_toml"
    /\ rw.writes # << >>
    /\ LET section == Head(rw.writes)[1]
           member == Head(rw.writes)[2]
           value == Head(rw.writes)[3]
           written == [Sections[section] EXCEPT ![member] = value]
           last == member = FieldOrder[section][Len(FieldOrder[section])]
       IN /\ server_config_' = IF section = "server" THEN written ELSE server_config_
          /\ feature_config_' = IF section = "feature" THEN written ELSE feature_config_
          /\ logging_config_' = IF section = "logging" THEN written ELSE logging_config_
          /\ monitoring_config_' =
                 IF section = "monitoring" THEN written ELSE monitoring_config_
          /\ rw' = [rw EXCEPT
                      !.writes = Tail(@),
                      !.stable[section] = IF last THEN written ELSE @,
                      !.get.whole =
                          IF last /\ rw.get.section = section
                                  /\ rw.get.pc \in {"waiting", "copying"}
                          THEN @ \cup {written} ELSE @]
    /\ UNCHANGED <<sys_file, last_modified_, sys_hot_reload_enabled_, sys_last,
                   sys_observer>>
    /\ UNCHANGED <<ruleVars, decVars, pmVars, hrVars, screenVars, mx, trace>>

\* the rest of reload(): last_modified_ after a load without error, and the
\* lock goes out of scope
RwReloadReturn ==
    /\ rw.reload_pc = "load_from_toml"
    /\ rw.writes = << >>
    /\ sys_last' = rw.error_code
    /\ last_modified_' = IF rw.error_code = "SUCCESS" THEN sys_file.mtime
                         ELSE last_modified_
    /\ rw' = [rw EXCEPT !.config_mutex_.writer = FALSE, !.reload_pc = "idle"]
    /\ UNCHANGED <<sys_file, server_config_, feature_config_, logging_config_,
                   monitoring_config_, sys_hot_reload_enabled_, sys_observer>>
    /\ UNCHANGED <<ruleVars, decVars, pmVars, hrVars, screenVars, mx, trace>>

\* get_server_config / get_feature_config / get_logging_config /
\* get_monitoring_config is called
RwGetCall(section) ==
    /\ rw.get.pc \in {"idle", "returned"}
    /\ rw' = [rw EXCEPT !.get = [pc |-> "waiting", section |-> section,
                                 rest |-> FieldOrder[section], copy |-> << >>,
                                 whole |-> {rw.stable[section]}]]
    /\ UNCHANGED sysVars
    /\ UNCHANGED <<ruleVars, decVars, pmVars, hrVars, screenVars, mx, trace>>

\* std::shared_lock lock(config_mutex_)
RwGetLock ==
    /\ rw.get.pc = "waiting"
    /\ shared_lock_acquirable(rw.config_mutex_)
    /\ rw' = [rw EXCEPT !.config_mutex_.readers = @ + 1, !.get.pc = "copying"]
    /\ UNCHANGED sysVars
    /\ UNCHANGED <<ruleVars, decVars, pmVars, hrVars, screenVars, mx, trace>>

\* the copy constructor of the returned struct, one member
RwGetCopy ==
    /\ rw.get.pc = "copying"
    /\ rw.get.rest # << >>
    /\ LET member == Head(rw.get.rest) IN
       rw' = [rw EXCEPT !.get.rest = Tail(@),
                        !.get.copy = (member :> Sections[rw.get.section][member]) @@ @]
    /\ UNCHANGED sysVars
    /\ UNCHANGED <<ruleVars, decVars, pmVars, hrVars, screenVars, mx, trace>>

\* the lock goes out of scope and the copy is returned
RwGetReturn ==
    /\ rw.get.pc = "copying"
    /\ rw.get.rest = << >>
    /\ rw' = [rw EXCEPT !.config_mutex_.readers = @ - 1, !.get.pc = "returned"]
    /\ UNCHANGED sysVars
    /\ UNCHANGED <<ruleVars, decVars, pmVars, hrVars, screenVars, mx, trace>>

\* the file changes between reloads
RwFileWrite(table) ==
    /\ SysFileWrite(table)
    /\ UNCHANGED rw

NextRw ==
    \/ \E table \in RwDocs : RwFileWrite(table)
    \/ RwReloadLock
    \/ RwReloadAssign
    \/ RwReloadReturn
    \/ \E i \in 1..Len(SectionNames) : RwGetCall(SectionNames[i])
    \/ RwGetLock
    \/ RwGetCopy
    \/ RwGetReturn

(***************************************************************************)
(* The mutexes of RuleEngine::Impl.  An operation is the sequence of lock  *)
(* and unlock steps its code makes; what it computes between them is in    *)
(* the rule-engine actions above.  A thread whose next step is a lock that *)
(* another thread holds waits.                                             *)
(***************************************************************************)
MxThreads == {"w1", "main", "watcher"}

Free == [exclusive |-> {}, shared |-> {}]

\* load_rules_from_file: unique_lock on config_mutex_, inside it lock_guard
\* on stats_mutex_; both end with the block
load_rules_steps ==
    << <<"lock", "config_mutex_">>, <<"lock", "stats_mutex_">>,
       <<"unlock", "stats_mutex_">>, <<"unlock", "config_mutex_">> >>

\* evaluate_rules: the shared lock around the copy of the enabled rules,
\* then for a rule the lock_guard around its statistics
evaluate_rules_steps ==
    << <<"lock_shared", "config_mutex_">>, <<"unlock_shared", "config_mutex_">>,
       <<"lock", "stats_mutex_">>, <<"unlock", "stats_mutex_">> >>

\* get_current_config
get_current_config_steps ==
    << <<"lock_shared", "config_mutex_">>, <<"unlock_shared", "config_mutex_">> >>

\* get_rule_statistics and reset_statistics
statistics_steps ==
    << <<"lock", "stats_mutex_">>, <<"unlock", "stats_mutex_">> >>

CallerOps ==
    [evaluate_rules |-> evaluate_rules_steps,
     get_current_config |-> get_current_config_steps,
     get_rule_statistics |-> statistics_steps,
     reset_statistics |-> statistics_steps,
     load_rules |-> load_rules_steps]

\* what the observer does with the engine when it is called
CallbackOps ==
    [get_current_config |-> get_current_config_steps,
     get_rule_statistics |-> statistics_steps]

\* (faulty variant) the observer is called with stats_mutex_ held
hot_reload_worker_steps_locked(callback) ==
    load_rules_steps
    \o << <<"lock", "stats_mutex_">> >> \o callback \o << <<"unlock", "stats_mutex_">> >>

\* hot_reload_worker, a round that reloads: load_rules_from_file, the copy
\* of current_config_ under the shared lock, then reload_callback_
hot_reload_worker_steps(callback) ==
    load_rules_steps
    \o << <<"lock_shared", "config_mutex_">>, <<"unlock_shared", "config_mutex_">> >>
    \o callback

InitMx ==
    mx = [config_mutex_ |-> Free, stats_mutex_ |-> Free,
          steps |-> [t \in MxThreads |-> << >>]]


\* the thread's next step is a lock that it cannot take now
Waits(t) ==
    /\ mx.steps[t] # << >>
    /\ LET kind == Head(mx.steps[t])[1]
           mutex == mx[Head(mx.steps[t])[2]]
       IN \/ kind = "lock" /\ (mutex.exclusive \cup mutex.shared) # {}
          \/ kind = "lock_shared" /\ mutex.exclusive # {}

\* a thread other than the watcher calls an operation of the engine
MxCall(t, op) ==
    /\ t # "watcher"
    /\ mx.steps[t] = << >>
    /\ mx' = [mx EXCEPT !.steps[t] = CallerOps[op]]
    /\ UNCHANGED <<ruleVars, sysVars, decVars, pmVars, hrVars, screenVars, rw, trace>>

\* the watcher finds the file modified
MxWatcherRound(callback) ==
    /\ mx.steps["watcher"] = << >>
    /\ mx' = [mx EXCEPT !.steps["watcher"] = hot_reload_worker_steps(CallbackOps[callback])]
    /\ UNCHANGED <<ruleVars, sysVars, decVars, pmVars, hrVars, screenVars, rw, trace>>

\* the next lock or unlock step of a thread that does not wait
MxStep(t) ==
    /\ mx.steps[t] # << >>
    /\ ~Waits(t)
    /\ LET kind == Head(mx.steps[t])[1]
           name == Head(mx.steps[t])[2]
           held == IF kind = "lock" THEN [mx[name] EXCEPT !.exclusive = @ \cup {t}]
                   ELSE IF kind = "lock_shared" THEN [mx[name] EXCEPT !.shared = @ \cup {t}]
                   ELSE IF kind = "unlock" THEN [mx[name] EXCEPT !.exclusive = @ \ {t}]
                   ELSE [mx[name] EXCEPT !.shared = @ \ {t}]
       IN mx' = [mx EXCEPT ![name] = held, !.steps[t] = Tail(@)]
    /\ UNCHANGED <<ruleVars, sysVars, decVars, pmVars, hrVars, screenVars, rw, trace>>

NextMx ==
    \/ \E t \in MxThreads, op \in DOMAIN CallerOps : MxCall(t, op)
    \/ \E callback \in DOMAIN CallbackOps : MxWatcherRound(callback)
    \/ \E t \in MxThreads : MxStep(t)

(***************************************************************************)
(* TraceContext::current_trace_id_ of one thread and the TraceScope        *)
(* objects on its stack.  Scopes are automatic objects: the one created    *)
(* last is destroyed first.  A scope also remembers, for the properties,   *)
(* the trace id the thread had when its constructor was entered.           *)
(***************************************************************************)
MaxDepth == 3    \* scopes alive at once

ExplicitIds == {"a", "b"}
GeneratedIds == {"g1", "g2"}    \* what the random generator may produce

InitTrace == trace = [current_trace_id_ |-> "", scopes |-> << >>]

InitAux == InitRw /\ InitMx /\ InitTrace

\* TraceScope::TraceScope(const std::string& trace_id): trace_id_, then
\* previous_trace_id_ from get_trace_id(), then set_trace_id(trace_id_)
TraceScopeExplicit(trace_id) ==
    /\ Len(trace.scopes) < MaxDepth
    /\ trace' = [current_trace_id_ |-> trace_id,
                 scopes |-> Append(trace.scopes,
                     [trace_id_ |-> trace_id,
                      previous_trace_id_ |-> trace.current_trace_id_,
                      entered_with |-> trace.current_trace_id_])]
    /\ UNCHANGED <<ruleVars, sysVars, decVars, pmVars, hrVars, screenVars, rw, mx>>

\* TraceScope::TraceScope(): the members are initialised in the order of
\* their declaration, trace_id_ first: generate_trace_id() has set the
\* current id when get_trace_id() is called for previous_trace_id_
TraceScopeGenerated(generated) ==
    /\ Len(trace.scopes) < MaxDepth
    /\ LET after_generate == generated    \* set_trace_id inside generate_trace_id
       IN trace' = [current_trace_id_ |-> after_generate,
                    scopes |-> Append(trace.scopes,
                        [trace_id_ |-> generated,
                         previous_trace_id_ |-> after_generate,
                         entered_with |-> trace.current_trace_id_])]
    /\ UNCHANGED <<ruleVars, sysVars, decVars, pmVars, hrVars, screenVars, rw, mx>>

\* TraceScope::~TraceScope of the innermost scope
TraceScopeDestroy ==
    /\ trace.scopes # << >>
    /\ trace' = [current_trace_id_ |-> trace.scopes[Len(trace.scopes)].previous_trace_id_,
                 scopes |-> SubSeq(trace.scopes, 1, Len(trace.scopes) - 1)]
    /\ UNCHANGED <<ruleVars, sysVars, decVars, pmVars, hrVars, screenVars, rw, mx>>

NextTrace ==
    \/ \E trace_id \in ExplicitIds : TraceScopeExplicit(trace_id)
    \/ \E generated \in GeneratedIds : TraceScopeGenerated(generated)
    \/ TraceScopeDestroy

(***************************************************************************)
(* Pattern matcher with the std::regex backend (the backend of a build     *)
(* without ENABLE_HYPERSCAN).  A pattern file is a list of lines; a        *)
(* pattern keeps the fields that loading, compiling and matching read.     *)
(***************************************************************************)
MaxPatterns == 3    \* add_pattern is called while fewer patterns are loaded

PatternLines == {"10.0.0.1", "8.8.8.8", "bad("}
Texts == {"10.0.0.1", "8.8.8.8"}

\* std::regex(pattern): "bad(" throws regex_error, the other lines compile
regex_compiles(pattern) == pattern # "bad("

\* std::regex_search(text, regex(pattern)) on the lines and texts above: an
\* address line finds itself only
regex_search(text, pattern) == text = pattern

MissingFile == [exists |-> FALSE, lines |-> << >>]
PatternFile(lines) == [exists |-> TRUE, lines |-> lines]

BlacklistFiles ==
    { MissingFile,
      PatternFile(<< "10.0.0.1" >>),
      PatternFile(<< "# blocked", "bad(", "10.0.0.1" >>) }
WhitelistFiles ==
    { MissingFile,
      PatternFile(<< >>),
      PatternFile(<< "", "8.8.8.8" >>) }

Pattern(id, pattern, category) == [id |-> id, pattern |-> pattern, category |-> category]

AddablePatterns ==
    { Pattern(1, "8.8.8.8", "blacklist"),
      Pattern(7, "10.0.0.1", "whitelist"),
      Pattern(8, "bad(", "blacklist") }

\* the getline loop of parse_pattern_file: empty lines and comments are
\* skipped, the others are numbered from pattern_id on
RECURSIVE parse_lines(_, _, _)
parse_lines(lines, category, pattern_id) ==
    IF lines = << >> THEN << >>
    ELSE IF Head(lines) = "" \/ Head(lines) = "# blocked"
    THEN parse_lines(Tail(lines), category, pattern_id)
    ELSE << Pattern(pattern_id, Head(lines), category) >>
         \o parse_lines(Tail(lines), category, pattern_id + 1)

\* PatternUtils::parse_pattern_file
parse_pattern_file(pattern_file, category) ==
    IF ~pattern_file.exists
    THEN [value |-> << >>, error_code |-> "INVALID_REQUEST"]
    ELSE [value |-> parse_lines(pattern_file.lines, category, 1),
          error_code |-> "SUCCESS"]

\* StdRegexBackend::compile_patterns: compiled_patterns_ is cleared, then
\* filled pattern by pattern up to the first one that does not compile
RECURSIVE compiled_until_error(_)
compiled_until_error(patterns) ==
    IF patterns = << >> \/ ~regex_compiles(Head(patterns).pattern) THEN << >>
    ELSE << Head(patterns) >> \o compiled_until_error(Tail(patterns))

backend_compile_patterns(compiled, patterns) ==
    [compiled_patterns_ |-> compiled_until_error(patterns),
     error_code |-> IF \A i \in 1..Len(patterns) : regex_compiles(patterns[i].pattern)
                    THEN "SUCCESS" ELSE "RULE_EVALUATION_FAILED"]

EmptyResults ==
    [matches |-> << >>, blacklist_matches |-> << >>, whitelist_matches |-> << >>,
     patterns_checked |-> 0]

PatternMatch(pattern, text) ==
    [pattern_id |-> pattern.id, matched_text |-> text, category |-> pattern.category]

\* pattern.category.find("blacklist") != npos, on the categories used
IsBlacklist(category) == category = "blacklist"
IsWhitelist(category) == category = "whitelist"

\* (faulty variant) the category filter is not applied
backend_match_text_unfiltered(compiled, text, category) ==
    LET hits == SelectSeq(compiled, LAMBDA p : regex_search(text, p.pattern))
        found == [i \in 1..Len(hits) |-> PatternMatch(hits[i], text)]
    IN [matches |-> found,
        blacklist_matches |-> SelectSeq(found, LAMBDA m : IsBlacklist(m.category)),
        whitelist_matches |->
            SelectSeq(found, LAMBDA m : ~IsBlacklist(m.category) /\ IsWhitelist(m.category)),
        patterns_checked |-> Len(compiled)]

\* StdRegexBackend::match_text
backend_match_text(compiled, text, category) ==
    LET hits == SelectSeq(compiled,
                   LAMBDA p : /\ (category = "" \/ p.category = category)
                              /\ regex_search(text, p.pattern))
        found == [i \in 1..Len(hits) |-> PatternMatch(hits[i], text)]
    IN [matches |-> found,
        blacklist_matches |-> SelectSeq(found, LAMBDA m : IsBlacklist(m.category)),
        whitelist_matches |->
            SelectSeq(found, LAMBDA m : ~IsBlacklist(m.category) /\ IsWhitelist(m.category)),
        patterns_checked |-> Len(compiled)]

\* (faulty variant) the backend is asked whatever initialized_ says
match_text_unguarded(m, text, category) ==
    backend_match_text(m.compiled_patterns_, text, category)

\* PatternMatcher::Impl::match_text
match_text(m, text, category) ==
    IF ~m.initialized_ THEN EmptyResults
    ELSE backend_match_text(m.compiled_patterns_, text, category)

\* StdRegexBackend::match_batch: the results of match_text for each text,
\* appended in the order of the texts
RECURSIVE backend_match_batch(_, _, _)
backend_match_batch(compiled, texts, category) ==
    IF texts = << >> THEN EmptyResults
    ELSE LET text_results == backend_match_text(compiled, texts[Len(texts)], category)
             aggregated_results ==
                 backend_match_batch(compiled, SubSeq(texts, 1, Len(texts) - 1), category)
         IN [matches |-> aggregated_results.matches \o text_results.matches,
             blacklist_matches |-> aggregated_results.blacklist_matches
                                   \o text_results.blacklist_matches,
             whitelist_matches |-> aggregated_results.whitelist_matches
                                   \o text_results.whitelist_matches,
             patterns_checked |-> text_results.patterns_checked]

\* PatternMatcher::Impl::match_batch
match_batch(m, texts, category) ==
    IF ~m.initialized_ THEN EmptyResults
    ELSE backend_match_batch(m.compiled_patterns_, texts, category)

\* (faulty variant) the sum is returned as it is
floor_at_zero_none(score) == score

\* std::max(0.0f, score)
floor_at_zero(score) == IF score < 0 THEN 0 ELSE score

\* the loop of calculate_match_score over matches: +10 for a blacklist
\* category, else -5 for a whitelist category
RECURSIVE match_score_sum(_)
match_score_sum(matches) ==
    IF matches = << >> THEN 0
    ELSE match_score_sum(Tail(matches))
         + (IF IsBlacklist(Head(matches).category) THEN 10
            ELSE IF IsWhitelist(Head(matches).category) THEN -5
            ELSE 0)

\* PatternMatchResults::calculate_match_score
calculate_match_score(results) == floor_at_zero(match_score_sum(results.matches))

TextBatches == { << >>, << "10.0.0.1", "8.8.8.8" >>, << "8.8.8.8", "8.8.8.8" >> }
Categories == {"", "blacklist", "whitelist"}

\* a constructed matcher: backend selected, nothing loaded
InitMatcher ==
    /\ matcher = [loaded_patterns_ |-> << >>, initialized_ |-> FALSE,
                  last_error_ |-> "", compiled_patterns_ |-> << >>]
    /\ pm_last = [op |-> "none", error_code |-> "SUCCESS", results |-> EmptyResults,
                  match_score |-> 0]

\* what a call returned, and calculate_match_score() of its results
Returns(op, error_code, results) ==
    pm_last' = [op |-> op, error_code |-> error_code, results |-> results,
                match_score |-> calculate_match_score(results)]

\* PatternMatcher::Impl::load_patterns
LoadPatterns(blacklist, whitelist) ==
    LET blacklist_result == parse_pattern_file(blacklist, "blacklist")
        whitelist_result == parse_pattern_file(whitelist, "whitelist")
    IN
    /\ IF blacklist_result.error_code # "SUCCESS"
       THEN /\ matcher' = [matcher EXCEPT !.loaded_patterns_ = << >>,
                                          !.last_error_ = "Cannot open pattern file"]
            /\ Returns("load_patterns", blacklist_result.error_code, EmptyResults)
       ELSE IF whitelist_result.error_code # "SUCCESS"
       THEN /\ matcher' = [matcher EXCEPT !.loaded_patterns_ = blacklist_result.value,
                                          !.last_error_ = "Cannot open pattern file"]
            /\ Returns("load_patterns", whitelist_result.error_code, EmptyResults)
       ELSE /\ matcher' = [matcher EXCEPT !.loaded_patterns_ =
                              blacklist_result.value \o whitelist_result.value]
            /\ Returns("load_patterns", "SUCCESS", EmptyResults)
    /\ UNCHANGED <<ruleVars, sysVars, decVars, hrVars, screenVars, auxVars>>

\* PatternMatcher::Impl::add_pattern
AddPattern(pattern) ==
    /\ Len(matcher.loaded_patterns_) < MaxPatterns
    /\ matcher' = [matcher EXCEPT !.loaded_patterns_ = Append(@, pattern),
                                  !.initialized_ = FALSE]
    /\ Returns("add_pattern", "SUCCESS", EmptyResults)
    /\ UNCHANGED <<ruleVars, sysVars, decVars, hrVars, screenVars, auxVars>>

\* PatternMatcher::Impl::compile_patterns
CompilePatterns ==
    LET compile_result ==
            backend_compile_patterns(matcher.compiled_patterns_, matcher.loaded_patterns_)
    IN
    /\ matcher' =
          IF compile_result.error_code = "SUCCESS"
          THEN [matcher EXCEPT !.compiled_patterns_ = compile_result.compiled_patterns_,
                               !.initialized_ = TRUE]
          ELSE [matcher EXCEPT !.compiled_patterns_ = compile_result.compiled_patterns_,
                               !.last_error_ = "Pattern compilation failed"]
    /\ Returns("compile_patterns", compile_result.error_code, EmptyResults)
    /\ UNCHANGED <<ruleVars, sysVars, decVars, hrVars, screenVars, auxVars>>

\* PatternMatcher::match_text
MatchText(text, category) ==
    /\ Returns("match_text", "SUCCESS", match_text(matcher, text, category))
    /\ UNCHANGED matcher
    /\ UNCHANGED <<ruleVars, sysVars, decVars, hrVars, screenVars, auxVars>>

\* PatternMatcher::match_batch
MatchBatch(texts, category) ==
    /\ Returns("match_batch", "SUCCESS", match_batch(matcher, texts, category))
    /\ UNCHANGED matcher
    /\ UNCHANGED <<ruleVars, sysVars, decVars, hrVars, screenVars, auxVars>>

NextPattern ==
    \/ \E blacklist \in BlacklistFiles, whitelist \in WhitelistFiles :
          LoadPatterns(blacklist, whitelist)
    \/ \E pattern \in AddablePatterns : AddPattern(pattern)
    \/ CompilePatterns
    \/ \E text \in Texts, category \in Categories :
          MatchText(text, category)
    \/ \E texts \in TextBatches, category \in Categories :
          MatchBatch(texts, category)


\* no request has been screened yet
NotScreened ==
    [ip |-> "", hit |-> FALSE, ip_blacklist_match |-> 0, triggered |-> FALSE,
     decision |-> "NONE"]

InitScreen == screen = NotScreened

(***************************************************************************)
(* Hot-reload lifecycle, statement by statement: enable_hot_reload and     *)
(* disable_hot_reload of the rule engine ("rules") and of SystemConfig     *)
(* ("system"), and the loop of hot_reload_worker.  A behaviour follows one *)
(* of the two artifacts.  What a reload does to the configuration is       *)
(* modelled by the other specifications; here a reload succeeds or fails.  *)
(***************************************************************************)
MaxWatchers == 2    \* watcher threads started in a behaviour

Artifacts == {"rules", "system"}
Controllers == {"c1", "c2"}
WatcherIds == 1..MaxWatchers

NoThread == 0
NoWatcher == [pc |-> "unborn", joined |-> FALSE, sleeps_after_stop |-> 0]

InitLifecycle(artifact) ==
    /\ hr = [artifact |-> artifact,
             hot_reload_enabled_ |-> FALSE,
             stop_flag |-> FALSE,
             hot_reload_thread_ |-> NoThread,
             config_mutex_ |-> "free",
             modified |-> FALSE,
             terminate_called |-> FALSE,
             last_event |-> "none"]
    /\ ctl = [c \in Controllers |-> [pc |-> "idle", target |-> NoThread]]
    /\ wt = [w \in WatcherIds |-> NoWatcher]

InitLifecycleIdle == InitLifecycle("rules")

Alive == ~hr.terminate_called

\* std::thread::joinable of the thread object behind a handle
joinable(w) == w # NoThread /\ ~wt[w].joined

\* threads that were started and have not left hot_reload_worker
Running == { w \in WatcherIds : wt[w].pc \notin {"unborn", "exited"} }

Goto(c, pc) == ctl' = [ctl EXCEPT ![c].pc = pc]

\* the environment changes the watched file
Touch ==
    /\ Alive
    /\ ~hr.modified
    /\ hr' = [hr EXCEPT !.modified = TRUE, !.last_event = "touch"]
    /\ UNCHANGED <<ctl, wt>>
    /\ UNCHANGED <<ruleVars, sysVars, decVars, pmVars, screenVars, auxVars>>

\* enable_hot_reload: the test of hot_reload_enabled_ (SystemConfig takes
\* config_mutex_ first and keeps it to the end of the call)
EnableTest(c) ==
    /\ Alive
    /\ ctl[c].pc = "idle"
    /\ \E w \in WatcherIds : wt[w].pc = "unborn"
    /\ IF hr.artifact = "system"
       THEN /\ hr.config_mutex_ = "free"
            /\ IF hr.hot_reload_enabled_
               THEN /\ hr' = [hr EXCEPT !.last_event = "enable refused"]
                    /\ UNCHANGED ctl
               ELSE /\ hr' = [hr EXCEPT !.config_mutex_ = c, !.last_event = "enable"]
                    /\ Goto(c, "enable_stop")
       ELSE IF hr.hot_reload_enabled_
            THEN /\ hr' = [hr EXCEPT !.last_event = "enable refused"]
                 /\ UNCHANGED ctl
            ELSE /\ hr' = [hr EXCEPT !.last_event = "enable"]
                 /\ Goto(c, "enable_stop")
    /\ UNCHANGED wt
    /\ UNCHANGED <<ruleVars, sysVars, decVars, pmVars, screenVars, auxVars>>

\* enable_hot_reload: stop flag .store(false); SystemConfig sets
\* hot_reload_enabled_ before it starts the thread, the rule engine after
EnableClearStop(c) ==
    /\ Alive
    /\ ctl[c].pc = "enable_stop"
    /\ hr' = [hr EXCEPT !.stop_flag = FALSE, !.last_event = "enable"]
    /\ Goto(c, IF hr.artifact = "system" THEN "enable_flag" ELSE "enable_thread")
    /\ UNCHANGED wt
    /\ UNCHANGED <<ruleVars, sysVars, decVars, pmVars, screenVars, auxVars>>

\* hot_reload_thread_ = std::make_unique<std::thread>(...): the thread starts;
\* the thread object the handle held before is destroyed, which calls
\* std::terminate if it is joinable
EnableStartThread(c) ==
    /\ Alive
    /\ ctl[c].pc = "enable_thread"
    /\ LET w == CHOOSE w \in WatcherIds :
                   wt[w].pc = "unborn" /\ \A v \in WatcherIds : wt[v].pc = "unborn" => w <= v
       IN /\ \E v \in WatcherIds : wt[v].pc = "unborn"
          /\ wt' = [wt EXCEPT ![w].pc = "while"]
          /\ hr' = [hr EXCEPT !.hot_reload_thread_ = w,
                              !.terminate_called = joinable(hr.hot_reload_thread_),
                              !.config_mutex_ =
                                  IF hr.artifact = "system" THEN "free" ELSE @,
                              !.last_event = "enable"]
    /\ Goto(c, IF hr.artifact = "system" THEN "idle" ELSE "enable_flag")
    /\ UNCHANGED <<ruleVars, sysVars, decVars, pmVars, screenVars, auxVars>>

\* hot_reload_enabled_.store(true)
EnableSetFlag(c) ==
    /\ Alive
    /\ ctl[c].pc = "enable_flag"
    /\ hr' = [hr EXCEPT !.hot_reload_enabled_ = TRUE, !.last_event = "enable"]
    /\ Goto(c, IF hr.artifact = "system" THEN "enable_thread" ELSE "idle")
    /\ UNCHANGED wt
    /\ UNCHANGED <<ruleVars, sysVars, decVars, pmVars, screenVars, auxVars>>

\* disable_hot_reload: the test of hot_reload_enabled_
DisableTest(c) ==
    /\ Alive
    /\ ctl[c].pc = "idle"
    /\ hr' = [hr EXCEPT !.last_event = "disable"]
    /\ IF hr.hot_reload_enabled_ THEN Goto(c, "disable_stop") ELSE UNCHANGED ctl
    /\ UNCHANGED wt
    /\ UNCHANGED <<ruleVars, sysVars, decVars, pmVars, screenVars, auxVars>>

\* stop flag .store(true)
DisableSetStop(c) ==
    /\ Alive
    /\ ctl[c].pc = "disable_stop"
    /\ hr' = [hr EXCEPT !.stop_flag = TRUE, !.last_event = "disable"]
    /\ Goto(c, "disable_flag")
    /\ UNCHANGED wt
    /\ UNCHANGED <<ruleVars, sysVars, decVars, pmVars, screenVars, auxVars>>

\* hot_reload_enabled_.store(false); then the handle is looked at
DisableClearFlag(c) ==
    /\ Alive
    /\ ctl[c].pc = "disable_flag"
    /\ hr' = [hr EXCEPT !.hot_reload_enabled_ = FALSE, !.last_event = "disable"]
    /\ Goto(c, "disable_handle")
    /\ UNCHANGED wt
    /\ UNCHANGED <<ruleVars, sysVars, decVars, pmVars, screenVars, auxVars>>

\* if (hot_reload_thread_ && hot_reload_thread_->joinable()): join that thread.
\* The rule engine resets the handle whether it joined or not; SystemConfig
\* resets it only after a join.
DisableReadHandle(c) ==
    /\ Alive
    /\ ctl[c].pc = "disable_handle"
    /\ ctl' = [ctl EXCEPT ![c] =
          IF joinable(hr.hot_reload_thread_)
          THEN [pc |-> "disable_join", target |-> hr.hot_reload_thread_]
          ELSE [pc |-> IF hr.artifact = "system" THEN "idle" ELSE "disable_reset",
                target |-> NoThread]]
    /\ hr' = [hr EXCEPT !.last_event = "disable"]
    /\ UNCHANGED wt
    /\ UNCHANGED <<ruleVars, sysVars, decVars, pmVars, screenVars, auxVars>>

\* (faulty variant) join returns at once
join_returns_at_once(w) == TRUE

\* std::thread::join returns when the thread has left its function
join_returns(w) == wt[w].pc = "exited"

DisableJoin(c) ==
    /\ Alive
    /\ ctl[c].pc = "disable_join"
    /\ join_returns(ctl[c].target)
    /\ wt' = [wt EXCEPT ![ctl[c].target].joined = TRUE]
    /\ ctl' = [ctl EXCEPT ![c] = [pc |-> "disable_reset", target |-> NoThread]]
    /\ hr' = [hr EXCEPT !.last_event = "disable"]
    /\ UNCHANGED <<ruleVars, sysVars, decVars, pmVars, screenVars, auxVars>>

\* hot_reload_thread_.reset(): destroys the thread object behind the handle
DisableReset(c) ==
    /\ Alive
    /\ ctl[c].pc = "disable_reset"
    /\ hr' = [hr EXCEPT !.hot_reload_thread_ = NoThread,
                        !.terminate_called = joinable(hr.hot_reload_thread_),
                        !.last_event = "disable"]
    /\ Goto(c, "idle")
    /\ UNCHANGED wt
    /\ UNCHANGED <<ruleVars, sysVars, decVars, pmVars, screenVars, auxVars>>

WatcherGoto(w, pc, event) ==
    /\ wt' = [wt EXCEPT ![w].pc = pc]
    /\ hr' = [hr EXCEPT !.last_event = event]

\* hot_reload_worker: while (!stop)
WatcherLoopTest(w) ==
    /\ Alive
    /\ wt[w].pc = "while"
    /\ WatcherGoto(w, IF hr.stop_flag THEN "exited" ELSE "sleep", "watcher")
    /\ UNCHANGED ctl
    /\ UNCHANGED <<ruleVars, sysVars, decVars, pmVars, screenVars, auxVars>>

\* sleep_for(check interval) has run to its end
WatcherSleep(w) ==
    /\ Alive
    /\ wt[w].pc = "sleep"
    /\ wt' = [wt EXCEPT ![w].pc = "woke",
                        ![w].sleeps_after_stop =
                            IF hr.stop_flag /\ @ < 2 THEN @ + 1 ELSE @]
    /\ hr' = [hr EXCEPT !.last_event = "watcher"]
    /\ UNCHANGED ctl
    /\ UNCHANGED <<ruleVars, sysVars, decVars, pmVars, screenVars, auxVars>>

\* if (stop) break
WatcherStopTest(w) ==
    /\ Alive
    /\ wt[w].pc = "woke"
    /\ WatcherGoto(w, IF hr.stop_flag THEN "exited" ELSE "check", "watcher")
    /\ UNCHANGED ctl
    /\ UNCHANGED <<ruleVars, sysVars, decVars, pmVars, screenVars, auxVars>>

\* the test of the file's modification time
WatcherCheck(w) ==
    /\ Alive
    /\ wt[w].pc = "check"
    /\ WatcherGoto(w, IF hr.modified THEN "reload" ELSE "while", "watcher")
    /\ UNCHANGED ctl
    /\ UNCHANGED <<ruleVars, sysVars, decVars, pmVars, screenVars, auxVars>>

\* load_rules_from_file / reload(): on success the configuration is swapped
\* (under config_mutex_ held exclusively) and the observer is called next
WatcherReload(w, success) ==
    /\ Alive
    /\ wt[w].pc = "reload"
    /\ hr.config_mutex_ = "free"
    /\ wt' = [wt EXCEPT ![w].pc = IF success THEN "callback" ELSE "while"]
    /\ hr' = [hr EXCEPT !.modified = IF success THEN FALSE ELSE @,
                        !.last_event = IF success THEN "swap" ELSE "reload failed"]
    /\ UNCHANGED ctl
    /\ UNCHANGED <<ruleVars, sysVars, decVars, pmVars, screenVars, auxVars>>

\* the observer callback
WatcherCallback(w) ==
    /\ Alive
    /\ wt[w].pc = "callback"
    /\ WatcherGoto(w, "while", "callback")
    /\ UNCHANGED ctl
    /\ UNCHANGED <<ruleVars, sysVars, decVars, pmVars, screenVars, auxVars>>

WatcherStep ==
    \/ \E w \in WatcherIds : WatcherLoopTest(w)
    \/ \E w \in WatcherIds : WatcherSleep(w)
    \/ \E w \in WatcherIds : WatcherStopTest(w)
    \/ \E w \in WatcherIds : WatcherCheck(w)
    \/ \E w \in WatcherIds, success \in BOOLEAN : WatcherReload(w, success)
    \/ \E w \in WatcherIds : WatcherCallback(w)

ControllerStep(c) ==
    \/ EnableTest(c)
    \/ EnableClearStop(c)
    \/ EnableStartThread(c)
    \/ EnableSetFlag(c)
    \/ DisableTest(c)
    \/ DisableSetStop(c)
    \/ DisableClearFlag(c)
    \/ DisableReadHandle(c)
    \/ DisableJoin(c)
    \/ DisableReset(c)

InitWatcher ==
    /\ InitRule /\ InitSys /\ InitDecIdle /\ InitMatcher /\ InitScreen /\ InitAux
    /\ \E artifact \in Artifacts : InitLifecycle(artifact)

NextWatcher == Touch \/ WatcherStep \/ ControllerStep("c1")

\* One thread calls enable_hot_reload and disable_hot_reload.
SpecWatcher == InitWatcher /\ [][NextWatcher]_vars

NextWatcherPar == Touch \/ WatcherStep \/ \E c \in Controllers : ControllerStep(c)

\* Several threads call enable_hot_reload and disable_hot_reload.
SpecWatcherPar == InitWatcher /\ [][NextWatcherPar]_vars

Init == InitRule /\ InitSys /\ InitDecIdle /\ InitMatcher /\ InitLifecycleIdle /\ InitScreen /\ InitAux

\* The pattern matcher used by one thread.
SpecPattern == Init /\ [][NextPattern]_vars

SpecConfig == Init /\ [][NextConfig]_vars

\* reload() and one getter, member by member
SpecRw == Init /\ [][NextRw]_vars

\* scopes of one thread are created and destroyed
SpecTrace == Init /\ [][NextTrace]_vars

\* two callers and the watcher on the mutexes of the rule engine
SpecMx == Init /\ [][NextMx]_vars

(***************************************************************************)
(* The decision functions.  `dec` holds one call: its input, and after the *)
(* call its result.  Scores are numbers; a score that is not a whole       *)
(* number is the exact fraction num/den.                                   *)
(***************************************************************************)
MaxScores == 2      \* longest rule_scores / model_scores list

RECURSIVE Sum(_)
Sum(scores) == IF scores = << >> THEN 0 ELSE Head(scores) + Sum(Tail(scores))

RECURSIVE SeqsUpTo(_, _)
SeqsUpTo(values, n) ==
    IF n = 0 THEN { << >> }
    ELSE LET shorter == SeqsUpTo(values, n - 1)
         IN shorter \cup { Append(q, v) : q \in shorter, v \in values }

\* (faulty variant) std::clamp that leaves the value as it is
clamp_unbounded(v, lo, hi) == v

\* std::clamp
clamp(v, lo, hi) == IF v < lo THEN lo ELSE IF hi < v THEN hi ELSE v

\* RuleThresholds::make_decision
make_decision(thresholds, score) ==
    IF score < thresholds.approve_threshold THEN "APPROVE"
    ELSE IF score >= thresholds.review_threshold THEN "DECLINE"
    ELSE "REVIEW"

\* std::uniform_real_distribution<float>(0, 15): a value of [0, 15), kept as
\* its whole part (every other addend and both thresholds are whole numbers)
MlScoreLimit == 15
MlScores == 0 .. (MlScoreLimit - 1)

\* ip.find("10.") == 0 || ip.find("192.168.") == 0, on the addresses used
PrivateIp(ip) == ip \in {"10.0.0.1", "192.168.1.1"}

\* DecisionHandler::process_risk_decision
process_risk_decision(request, ml_score) ==
    LET high_amount == request.amount > 10000
        currency_risk == request.currency # "USD" /\ request.currency # "EUR"
        customer_risk == request.risk_score > 70
        new_account == request.account_age_days < 30
        private_ip == PrivateIp(request.ip)
        high_risk == high_amount \/ customer_risk
        sum == (IF high_amount THEN 25 ELSE 0)
               + (IF currency_risk THEN 15 ELSE 0)
               + (IF customer_risk THEN 30 ELSE 0)
               + (IF new_account THEN 20 ELSE 0)
               + (IF private_ip THEN 10 ELSE 0)
               + ml_score
        risk_score == clamp(sum, 0, 100)
    IN [risk_score |-> risk_score,
        unclamped |-> sum,
        high_risk |-> high_risk,
        decision |-> IF risk_score >= 70 \/ high_risk THEN "DECLINE"
                     ELSE IF risk_score >= 30 THEN "REVIEW"
                     ELSE "APPROVE"]

\* DecisionContext::calculate_final_score, as the fraction num/den:
\* 0.6 * sum(rule_scores)/size + 0.4 * sum(model_scores)/size, clamped
calculate_final_score(rule_scores, model_scores) ==
    IF rule_scores = << >> /\ model_scores = << >>
    THEN [num |-> 0, den |-> 1, unclamped |-> 0]
    ELSE LET n == IF rule_scores = << >> THEN 1 ELSE Len(rule_scores)
             m == IF model_scores = << >> THEN 1 ELSE Len(model_scores)
             den == 10 * n * m
             num == 6 * Sum(rule_scores) * m + 4 * Sum(model_scores) * n
         IN [num |-> clamp(num, 0 * den, 100 * den), den |-> den,
             unclamped |-> num]

ThresholdPairs ==
    { [approve_threshold |-> DefaultApprove, review_threshold |-> DefaultReview],
      [approve_threshold |-> 20, review_threshold |-> 60],
      [approve_threshold |-> 50, review_threshold |-> 50],
      [approve_threshold |-> 70, review_threshold |-> 30] }

DecisionScores == {0, 29, 30, 50, 69, 70, 100}

DecisionRequests ==
    [amount : {100, 10000, 10001},
     currency : {"USD", "EUR", "JPY"},
     risk_score : {0, 70, 71},
     account_age_days : {29, 30},
     ip : {"8.8.8.8", "10.0.0.1", "192.168.1.1"}]

\* the new-account scenario: amount 500, USD, customer risk score 40, account
\* 10 days old, public address
NewAccountRequest ==
    [amount |-> 500, currency |-> "USD", risk_score |-> 40,
     account_age_days |-> 10, ip |-> "8.8.8.8"]

ScoreValues == {-50, 0, 60, 250}
ScoreLists == SeqsUpTo(ScoreValues, MaxScores)

DecisionCalls ==
    { [phase |-> "call", op |-> "make_decision",
       input |-> [thresholds |-> t, score |-> sc]] :
         t \in ThresholdPairs, sc \in DecisionScores }
    \cup
    { [phase |-> "call", op |-> "process_risk_decision",
       input |-> [request |-> r, ml_score |-> ml]] :
         r \in DecisionRequests \cup {NewAccountRequest}, ml \in MlScores }
    \cup
    { [phase |-> "call", op |-> "calculate_final_score",
       input |-> [rule_scores |-> rs, model_scores |-> ms]] :
         rs \in ScoreLists, ms \in ScoreLists }

InitDecision ==
    InitRule /\ InitSys /\ InitMatcher /\ InitLifecycleIdle /\ InitScreen /\ InitAux
    /\ dec \in DecisionCalls /\ InitHandler

Returned(output) ==
    dec' = [phase |-> "return", op |-> dec.op, input |-> dec.input,
            output |-> output]

MakeDecision ==
    /\ dec.phase = "call" /\ dec.op = "make_decision"
    /\ Returned([decision |-> make_decision(dec.input.thresholds, dec.input.score)])
    /\ UNCHANGED <<ruleVars, sysVars, pmVars, hrVars, screenVars, auxVars, handler>>

ProcessRiskDecision ==
    /\ dec.phase = "call" /\ dec.op = "process_risk_decision"
    /\ Returned(process_risk_decision(dec.input.request, dec.input.ml_score))
    /\ UNCHANGED <<ruleVars, sysVars, pmVars, hrVars, screenVars, auxVars, handler>>

CalculateFinalScore ==
    /\ dec.phase = "call" /\ dec.op = "calculate_final_score"
    /\ Returned(calculate_final_score(dec.input.rule_scores, dec.input.model_scores))
    /\ UNCHANGED <<ruleVars, sysVars, pmVars, hrVars, screenVars, auxVars, handler>>

NextDecision ==
    \/ MakeDecision
    \/ ProcessRiskDecision
    \/ CalculateFinalScore

\* Every call of a decision function, on inputs drawn by the initial state.
SpecDecision == InitDecision /\ [][NextDecision]_vars

(***************************************************************************)
(* The cache key of a request.  A timestamp is the whole number of          *)
(* milliseconds since the epoch that from_json put into the time point; a   *)
(* key is the sequence of the pieces written to the stream.                 *)
(***************************************************************************)
CacheKeyTimestamps == {0, 59999, 299999, 300000, 2999999, 3000000, 1500000000}

CacheKeyRequests ==
    [customer_id : {"c1", "c2"}, merchant_id : {"m1", "m2"},
     timestamp : CacheKeyTimestamps]

\* (faulty variant) the cast rounds to the nearest minute
duration_cast_minutes_rounded(ms) == (ms + 30000) \div 60000

\* std::chrono::duration_cast<std::chrono::minutes>: truncation toward zero,
\* of a count that is not negative
duration_cast_minutes(ms) == ms \div 60000

\* operator<< of an integer that is not negative: its decimal digits
RECURSIVE stream_integer(_)
stream_integer(n) ==
    LET digit == <<"0", "1", "2", "3", "4", "5", "6", "7", "8", "9">>[(n % 10) + 1]
    IN IF n < 10 THEN <<digit>> ELSE Append(stream_integer(n \div 10), digit)

\* TransactionRequest::get_cache_key
get_cache_key(request) ==
    LET timestamp_5min == duration_cast_minutes(request.timestamp) \div 5 IN
    <<"features:", request.customer_id, ":", request.merchant_id, ":">>
        \o stream_integer(timestamp_5min)

CacheKeyCalls ==
    { [phase |-> "call", op |-> "get_cache_key",
       input |-> [first |-> a, second |-> b]] : a, b \in CacheKeyRequests }

InitCacheKey ==
    InitRule /\ InitSys /\ InitMatcher /\ InitLifecycleIdle /\ InitScreen /\ InitAux
    /\ dec \in CacheKeyCalls /\ InitHandler

\* the keys of two requests
GetCacheKey ==
    /\ dec.phase = "call" /\ dec.op = "get_cache_key"
    /\ Returned([first |-> get_cache_key(dec.input.first),
                 second |-> get_cache_key(dec.input.second)])
    /\ UNCHANGED <<ruleVars, sysVars, pmVars, hrVars, screenVars, auxVars, handler>>

NextCacheKey == GetCacheKey

SpecCacheKey == InitCacheKey /\ [][NextCacheKey]_vars

(***************************************************************************)
(* Exact patterns character by character.  A pattern line of an address    *)
(* list holds digits and dots and reaches std::regex as it was written; a   *)
(* text is any sequence of characters.                                      *)
(***************************************************************************)
MaxExactLen == 3    \* characters of a pattern
MaxTextLen == 4     \* characters of a text

CharSeqs(chars, n) == UNION { [1..k -> chars] : k \in 0..n }

ExactPatterns == CharSeqs({"8", "."}, MaxExactLen) \ { << >> }
ExactTexts == CharSeqs({"8", ".", "x"}, MaxTextLen)

\* the ECMAScript regular expression of digits and dots matches the
\* characters of text from offset position on: a digit matches itself, an
\* unescaped dot any character
regex_match_at(text, regex, position) ==
    /\ position + Len(regex) <= Len(text)
    /\ \A j \in 1..Len(regex) :
          regex[j] = "." \/ regex[j] = text[position + j]

\* std::regex_search: the leftmost match, or none (-1)
regex_search_position(text, regex) ==
    LET found == { i \in 0..Len(text) : regex_match_at(text, regex, i) }
    IN IF found = {} THEN -1
       ELSE CHOOSE i \in found : \A k \in found : i <= k

\* StdRegexBackend::match_text with one compiled pattern that is neither a
\* regex nor a wildcard: regex_pattern = p.pattern, one regex_search, and
\* match.str(), match.position(), match.position() + match.length()
exact_match_text(pattern, text) ==
    LET position == regex_search_position(text, pattern) IN
    IF position = -1 THEN << >>
    ELSE << [matched_text |-> SubSeq(text, position + 1, position + Len(pattern)),
             start_offset |-> position,
             end_offset |-> position + Len(pattern)] >>

ExactCalls ==
    { [phase |-> "call", op |-> "match_text",
       input |-> [pattern |-> p, text |-> t]] :
         p \in ExactPatterns, t \in ExactTexts }

InitExact ==
    InitRule /\ InitSys /\ InitMatcher /\ InitLifecycleIdle /\ InitScreen /\ InitAux
    /\ dec \in ExactCalls /\ InitHandler

ExactMatchText ==
    /\ dec.phase = "call" /\ dec.op = "match_text"
    /\ Returned([matches |-> exact_match_text(dec.input.pattern, dec.input.text)])
    /\ UNCHANGED <<ruleVars, sysVars, pmVars, hrVars, screenVars, auxVars, handler>>

NextExact == ExactMatchText

SpecExact == InitExact /\ [][NextExact]_vars

(***************************************************************************)
(* Construction of a PatternMatcher: Impl::Impl selects the backend.  A    *)
(* build either defines ENABLE_HYPERSCAN or not; HyperscanBackend's        *)
(* is_available() is what hs_compile of a test pattern says at run time.   *)
(***************************************************************************)
Backends == {"AUTO", "HYPERSCAN", "STD_REGEX", "VECTORSCAN"}

\* the member initialisers of Impl: no backend object, STD_REGEX
ImplBeforeSelect == [backend_ |-> "nullptr", active_backend_ |-> "STD_REGEX"]

\* (faulty variant) the Hyperscan backend is taken without asking is_available()
try_hyperscan_backend_unchecked(impl, is_available) ==
    [ok |-> TRUE, impl |-> [backend_ |-> "Hyperscan", active_backend_ |-> "HYPERSCAN"]]

\* Impl::try_hyperscan_backend
try_hyperscan_backend(impl, is_available) ==
    IF is_available
    THEN [ok |-> TRUE, impl |-> [backend_ |-> "Hyperscan", active_backend_ |-> "HYPERSCAN"]]
    ELSE [ok |-> FALSE, impl |-> impl]

\* Impl::try_std_regex_backend
try_std_regex_backend(impl) ==
    [backend_ |-> "std::regex", active_backend_ |-> "STD_REGEX"]

\* Impl::select_backend in a build with or without ENABLE_HYPERSCAN
select_backend(impl, preferred_backend, ENABLE_HYPERSCAN, is_available) ==
    LET hyperscan == try_hyperscan_backend(impl, is_available) IN
    IF preferred_backend \in {"AUTO", "HYPERSCAN"} /\ ENABLE_HYPERSCAN /\ hyperscan.ok
    THEN hyperscan.impl
    ELSE try_std_regex_backend(impl)

BackendCalls ==
    { [phase |-> "call", op |-> "PatternMatcher",
       input |-> [backend |-> b, ENABLE_HYPERSCAN |-> e, is_available |-> a]] :
         b \in Backends, e \in BOOLEAN, a \in BOOLEAN }

InitBackend ==
    InitRule /\ InitSys /\ InitMatcher /\ InitLifecycleIdle /\ InitScreen /\ InitAux
    /\ dec \in BackendCalls /\ InitHandler

\* PatternMatcher::PatternMatcher(backend); get_active_backend() returns
\* active_backend_
ConstructPatternMatcher ==
    /\ dec.phase = "call" /\ dec.op = "PatternMatcher"
    /\ Returned(select_backend(ImplBeforeSelect, dec.input.backend,
                               dec.input.ENABLE_HYPERSCAN, dec.input.is_available))
    /\ UNCHANGED <<ruleVars, sysVars, pmVars, hrVars, screenVars, auxVars, handler>>

\* the constructed matcher is used: add_pattern leaves the backend alone
NextBackend ==
    \/ ConstructPatternMatcher
    \/ \E pattern \in AddablePatterns : dec.phase = "return" /\ AddPattern(pattern)

SpecBackend == InitBackend /\ [][NextBackend]_vars

(***************************************************************************)
(* Pattern lines character by character: a line of a pattern file is       *)
(* classified by parse_pattern_file, converted, compiled by std::regex     *)
(* with the ECMAScript grammar and searched for in a text.  The regular    *)
(* expressions are those the two conversions produce: anchors, literal     *)
(* characters, escapes, dots, and the quantifiers * and {1,3}.             *)
(***************************************************************************)
Digits == {"0", "1", "2", "3", "4", "5", "6", "7", "8", "9"}
LineTerminators == {"\n", "\r"}

Contains(chars, c) == \E i \in 1..Len(chars) : chars[i] = c

\* the characters wildcard_to_regex writes for one character of the line
wildcard_char_to_regex(c) ==
    IF c = "*" THEN <<".", "*">>
    ELSE IF c = "?" THEN <<".">>
    ELSE IF c \in {".", "^", "$", "+", "(", ")", "[", "]", "{", "}", "|", "\\"}
    THEN <<"\\", c>>
    ELSE <<c>>

RECURSIVE wildcard_chars_to_regex(_)
wildcard_chars_to_regex(chars) ==
    IF chars = << >> THEN << >>
    ELSE wildcard_char_to_regex(Head(chars)) \o wildcard_chars_to_regex(Tail(chars))

\* PatternUtils::wildcard_to_regex
wildcard_to_regex(wildcard_pattern) ==
    <<"^">> \o wildcard_chars_to_regex(wildcard_pattern) \o <<"$">>

\* std::regex(regex_pattern, ECMAScript): the terms of the expression, each
\* an assertion or an atom with the number of repetitions allowed (max -1:
\* any number).  A
\* backslash before a digit other than 0 is a back-reference, and one to a
\* group that does not exist is a regex_error; \0 is the NUL character.
RECURSIVE ecma_terms(_)
ecma_terms(r) ==
    IF r = << >> THEN << >>
    ELSE IF r[1] = "^" THEN <<[kind |-> "begin"]>> \o ecma_terms(Tail(r))
    ELSE IF r[1] = "$" THEN <<[kind |-> "end"]>> \o ecma_terms(Tail(r))
    ELSE IF r[1] = "\\" /\ (Len(r) = 1 \/ r[2] \in Digits \ {"0"})
    THEN <<[kind |-> "regex_error"]>>
    ELSE LET escaped == r[1] = "\\"
             width == IF escaped THEN 2 ELSE 1
             atom == IF escaped /\ r[2] = "d" THEN [kind |-> "digit", char |-> ""]
                     ELSE IF escaped /\ r[2] = "0" THEN [kind |-> "char", char |-> "NUL"]
                     ELSE IF escaped THEN [kind |-> "char", char |-> r[2]]
                     ELSE IF r[1] = "." THEN [kind |-> "any", char |-> ""]
                     ELSE [kind |-> "char", char |-> r[1]]
             after == SubSeq(r, width + 1, Len(r))
             star == after # << >> /\ after[1] = "*"
             braces == Len(after) >= 5 /\ SubSeq(after, 1, 5) = <<"{", "1", ",", "3", "}">>
         IN IF star
            THEN <<[kind |-> atom.kind, char |-> atom.char, min |-> 0, max |-> -1]>>
                 \o ecma_terms(Tail(after))
            ELSE IF braces
            THEN <<[kind |-> atom.kind, char |-> atom.char, min |-> 1, max |-> 3]>>
                 \o ecma_terms(SubSeq(after, 6, Len(after)))
            ELSE <<[kind |-> atom.kind, char |-> atom.char, min |-> 1, max |-> 1]>>
                 \o ecma_terms(after)

\* the constructor of std::regex throws
regex_error(terms) == \E i \in 1..Len(terms) : terms[i].kind = "regex_error"

\* one character against an atom; a dot matches no line terminator
atom_matches(term, c) ==
    IF term.kind = "any" THEN c \notin LineTerminators
    ELSE IF term.kind = "digit" THEN c \in Digits
    ELSE c = term.char

\* the terms match the characters of text from offset position on
RECURSIVE ecma_match(_, _, _)
ecma_match(terms, text, position) ==
    IF terms = << >> THEN TRUE
    ELSE LET term == Head(terms) IN
         IF term.kind = "begin"
         THEN position = 0 /\ ecma_match(Tail(terms), text, position)
         ELSE IF term.kind = "end"
         THEN position = Len(text) /\ ecma_match(Tail(terms), text, position)
         ELSE \E k \in term.min..(IF term.max < 0 THEN Len(text) ELSE term.max) :
                 /\ position + k <= Len(text)
                 /\ \A j \in 1..k : atom_matches(term, text[position + j])
                 /\ ecma_match(Tail(terms), text, position + k)

\* std::regex_search(text, match, compiled_regex)
ecma_regex_search(text, terms) ==
    \E position \in 0..Len(text) : ecma_match(terms, text, position)

\* std::string::find(c, from): the offset of the first c at or after from,
\* or npos (-1)
Find(chars, c, from) ==
    LET at == { i \in from..(Len(chars) - 1) : chars[i + 1] = c } IN
    IF at = {} THEN -1 ELSE CHOOSE i \in at : \A k \in at : i <= k

\* std::string::find_last_of(c)
FindLast(chars, c) ==
    LET at == { i \in 0..(Len(chars) - 1) : chars[i + 1] = c } IN
    IF at = {} THEN -1 ELSE CHOOSE i \in at : \A k \in at : i >= k

\* the number that decimal digits write
RECURSIVE digits_value(_)
digits_value(chars) ==
    IF chars = << >> THEN 0
    ELSE 10 * digits_value(SubSeq(chars, 1, Len(chars) - 1))
         + (CHOOSE d \in 0..9 :
               <<"0", "1", "2", "3", "4", "5", "6", "7", "8", "9">>[d + 1]
                   = chars[Len(chars)])

\* std::replace(prefix.begin(), prefix.end(), '.', '\\')
replace_dots(prefix) ==
    [i \in 1..Len(prefix) |-> IF prefix[i] = "." THEN "\\" ELSE prefix[i]]

\* "\\.\\d{1,3}"
OctetRegex == <<"\\", ".", "\\", "d", "{", "1", ",", "3", "}">>

\* PatternUtils::cidr_to_regex; std::stoi throws on a prefix part that does
\* not start with a digit (the lines here carry no sign and no blanks)
cidr_to_regex(cidr_pattern) ==
    LET slash_pos == Find(cidr_pattern, "/", 0)
        ip_part == SubSeq(cidr_pattern, 1, slash_pos)
        prefix_part == SubSeq(cidr_pattern, slash_pos + 2, Len(cidr_pattern))
        leading == CHOOSE n \in 0..Len(prefix_part) :
                      /\ \A i \in 1..n : prefix_part[i] \in Digits
                      /\ n = Len(prefix_part) \/ prefix_part[n + 1] \notin Digits
        prefix_length == digits_value(SubSeq(prefix_part, 1, leading))
        last_dot == FindLast(ip_part, ".")
        second_dot == Find(ip_part, ".", Find(ip_part, ".", 0) + 1)
        first_dot == Find(ip_part, ".", 0)
        body == IF prefix_length >= 24
                THEN IF last_dot # -1
                     THEN replace_dots(SubSeq(ip_part, 1, last_dot)) \o OctetRegex
                     ELSE << >>
                ELSE IF prefix_length >= 16
                THEN IF second_dot # -1
                     THEN replace_dots(SubSeq(ip_part, 1, second_dot))
                          \o OctetRegex \o OctetRegex
                     ELSE << >>
                ELSE IF first_dot # -1
                     THEN SubSeq(ip_part, 1, first_dot)
                          \o OctetRegex \o OctetRegex \o OctetRegex
                     ELSE << >>
    IN IF slash_pos = -1 \/ leading = 0 \/ prefix_length > 32
       THEN [value |-> << >>, error_code |-> "INVALID_REQUEST"]
       ELSE [value |-> <<"^">> \o body \o <<"$">>, error_code |-> "SUCCESS"]

\* the loop body of parse_pattern_file for a line that is neither empty nor
\* a comment: the pattern text, is_regex and the type the name records
parse_pattern_line(line) ==
    IF Contains(line, "/") /\ (Contains(line, ".") \/ Contains(line, ":"))
    THEN LET cidr_result == cidr_to_regex(line) IN
         IF cidr_result.error_code = "SUCCESS"
         THEN [pattern |-> cidr_result.value, is_regex |-> TRUE, type |-> "cidr"]
         ELSE [pattern |-> line, is_regex |-> FALSE, type |-> "none"]
    ELSE IF Contains(line, "*")
    THEN [pattern |-> line, is_regex |-> FALSE, type |-> "wildcard"]
    ELSE [pattern |-> line, is_regex |-> FALSE, type |-> "exact"]

\* StdRegexBackend::CompiledPattern: the text handed to std::regex
CompiledPattern_regex_pattern(p) ==
    IF ~p.is_regex /\ Contains(p.pattern, "*")
    THEN wildcard_to_regex(p.pattern)
    ELSE p.pattern

WildcardLines ==
    { line \in CharSeqs({"*", "?", ".", "a"}, MaxExactLen) : Contains(line, "*") }
WildcardTexts == CharSeqs({"a", ".", "\n"}, MaxTextLen)

CidrLines ==
    { <<"1", ".", "2", ".", "3", ".", "0", "/", "2", "4">>,
      <<"1", ".", "2", ".", "0", ".", "0", "/", "1", "6">>,
      <<"1", ".", "0", ".", "0", ".", "0", "/", "1", "6">>,
      <<"1", ".", "0", ".", "0", ".", "0", "/", "8">> }
Addresses ==
    { <<"1", ".", "2", ".", "3", ".", "4">>,
      <<"1", ".", "2", ".", "3", ".", "9">>,
      <<"1", ".", "2", ".", "4", ".", "4">>,
      <<"1", ".", "3", ".", "3", ".", "4">>,
      <<"2", ".", "2", ".", "3", ".", "4">>,
      <<"1", ".", "0", ".", "5", ".", "6">> }

LineCalls ==
    { [phase |-> "call", op |-> "match_line", input |-> [line |-> l, text |-> t]] :
         l \in WildcardLines, t \in WildcardTexts }
    \cup
    { [phase |-> "call", op |-> "match_line", input |-> [line |-> l, text |-> t]] :
         l \in CidrLines, t \in Addresses }

InitLines ==
    InitRule /\ InitSys /\ InitMatcher /\ InitLifecycleIdle /\ InitScreen /\ InitAux
    /\ dec \in LineCalls /\ InitHandler

\* a pattern file of the one line is loaded, which compiles it, and
\* match_text(text) is called; a pattern that does not compile leaves the
\* matcher uninitialised, and match_text then returns no match
MatchLine ==
    /\ dec.phase = "call" /\ dec.op = "match_line"
    /\ LET pattern == parse_pattern_line(dec.input.line)
           terms == ecma_terms(CompiledPattern_regex_pattern(pattern))
       IN Returned([type |-> pattern.type,
                    compiled |-> ~regex_error(terms),
                    matched |-> ~regex_error(terms)
                                /\ ecma_regex_search(dec.input.text, terms)])
    /\ UNCHANGED <<ruleVars, sysVars, pmVars, hrVars, screenVars, auxVars, handler>>

NextLines == MatchLine

SpecLines == InitLines /\ [][NextLines]_vars

(***************************************************************************)
(* Screening one request: the pattern matcher is asked about the request's *)
(* device ip, then evaluate_rules runs on the same request with the        *)
(* blacklist rule of the shipped rule file.                                *)
(***************************************************************************)
BlacklistRuleWeight == 50

\* config/rules.json: RULE_BLACKLIST_IP and the thresholds
BlacklistRule ==
    [id |-> "RULE_BLACKLIST_IP", expression |-> "ip_blacklist_match > 0",
     weight |-> BlacklistRuleWeight, enabled |-> TRUE]
BlacklistThresholds ==
    [approve_threshold |-> DefaultApprove, review_threshold |-> DefaultReview]

\* PatternMatchResults::has_blacklist_matches of match_transaction, whose
\* only non-empty field here is the device ip
has_blacklist_matches(m, ip) == match_text(m, ip, "").blacklist_matches # << >>

\* match_transaction(request), then evaluate_rules(request): the context
\* comes from from_transaction alone; the rule is compiled in this call and
\* reads ip_blacklist_match through the symbol table
ScreenRequest(ip) ==
    LET request == Request(2, 0, "c1")
        context == from_transaction(request)
        entry == [present |-> TRUE, expression |-> BlacklistRule.expression,
                  bound |-> TRUE]
        compiled == parser_compile(entry.expression)
    IN
    /\ matcher.initialized_
    /\ is_valid(context)
    /\ \E v \in ReadValues(entry, compiled.var, context) :
          LET triggered == Triggered(ExprValue(compiled, v))
              metrics == add_result(EmptyMetrics, BlacklistRule, triggered,
                                    entry.expression)
          IN screen' = [ip |-> ip,
                        hit |-> has_blacklist_matches(matcher, ip),
                        ip_blacklist_match |-> context.ip_blacklist_match,
                        triggered |-> triggered,
                        decision |-> make_decision(BlacklistThresholds,
                                                   metrics.total_score)]
    /\ UNCHANGED <<ruleVars, sysVars, decVars, pmVars, hrVars, auxVars>>

NextScreen ==
    \/ \E blacklist \in BlacklistFiles, whitelist \in WhitelistFiles :
          LoadPatterns(blacklist, whitelist)
    \/ \E pattern \in AddablePatterns : AddPattern(pattern)
    \/ CompilePatterns
    \/ \E ip \in Texts : ScreenRequest(ip)

\* Patterns are loaded and compiled, requests are screened.
SpecScreen == Init /\ [][NextScreen]_vars

(***************************************************************************)
(* DecisionHandler::process_decision_json.  A request body is its length   *)
(* in bytes, whether simdjson parses it, and the fields of the document    *)
(* that from_json and is_valid look at; the other fields are those of a    *)
(* valid request.  Amounts are whole units.                                *)
(***************************************************************************)
MaxRequests == 2        \* bodies handled in a behaviour
kMaxRequestSize == 8192
kMaxAmount == 1000000

RequestBodies ==
    [length : {0, 100, kMaxRequestSize, kMaxRequestSize + 1},
     wellformed : BOOLEAN,
     has_fields : BOOLEAN,
     request_id : {"", "r1"},
     amount : {0, 100, 10001, kMaxAmount + 1},
     merchant_category : {0, 5411, 65536, 70947}]

\* a body of no bytes is no document
Bodies == { b \in RequestBodies : b.length = 0 => ~b.wellformed }

HandlerMlScores == {0, MlScoreLimit - 1}

\* (faulty variant) a body of exactly kMaxRequestSize bytes is refused
too_large_inclusive(request_json) == request_json.length >= kMaxRequestSize

\* request_json.length() > kMaxRequestSize
too_large(request_json) == request_json.length > kMaxRequestSize

\* TransactionRequest::from_json: a missing or mistyped field is a simdjson
\* error; TransactionInfo::from_json refuses an amount out of range
TransactionRequest_from_json(json_doc) ==
    IF ~json_doc.has_fields
    THEN [error_code |-> "INVALID_JSON_FORMAT",
          error_message |-> "JSON string extraction failed"]
    ELSE IF json_doc.amount < 1 \/ json_doc.amount > kMaxAmount
    THEN [error_code |-> "INVALID_REQUEST",
          error_message |-> "Transaction info: Transaction amount out of valid range"]
    ELSE [error_code |-> "SUCCESS", error_message |-> ""]

\* info.merchant_category = static_cast<uint16_t>(category_result.value);
\* extract_uint32 has refused only what does not fit 32 bits
TransactionInfo_merchant_category(json_doc) == Cast16(json_doc.merchant_category)

\* TransactionRequest::is_valid, on the fields a body varies; it reads the
\* converted struct
TransactionRequest_is_valid(json_doc) ==
    /\ json_doc.request_id # ""
    /\ json_doc.amount >= 1 /\ json_doc.amount <= kMaxAmount
    /\ TransactionInfo_merchant_category(json_doc) > 0

\* the TransactionRequest converted from the document
ConvertedRequest(json_doc) ==
    [amount |-> json_doc.amount, currency |-> "USD", risk_score |-> 0,
     account_age_days |-> 30, ip |-> "8.8.8.8"]

HandlerError(error_code, error_message) ==
    [error_code |-> error_code, error_message |-> error_message, decision |-> "NONE"]

\* the Result that process_decision_json returns
process_decision_json(request_json, ml_score) ==
    IF too_large(request_json)
    THEN HandlerError("INVALID_REQUEST", "Request body too large")
    ELSE IF request_json.length = 0
    THEN HandlerError("MISSING_REQUIRED_FIELD", "Empty request body")
    ELSE IF ~request_json.wellformed
    THEN HandlerError("INVALID_JSON_FORMAT", "Invalid JSON format: ")
    ELSE LET request_result == TransactionRequest_from_json(request_json) IN
         IF request_result.error_code # "SUCCESS"
         THEN HandlerError(request_result.error_code, request_result.error_message)
         ELSE IF ~TransactionRequest_is_valid(request_json)
         THEN HandlerError("INVALID_REQUEST", "Invalid transaction data")
         ELSE [error_code |-> "SUCCESS", error_message |-> "",
               decision |->
                   process_risk_decision(ConvertedRequest(request_json),
                                         ml_score).decision]

\* (faulty variant) the document is parsed before its size is looked at
parse_attempted_always(request_json) == TRUE

\* parser.parse(request_json) is reached: neither return before it was taken
parse_attempted(request_json) ==
    ~too_large(request_json) /\ request_json.length # 0

\* calls of MetricsCollector::record_error on the way to a result: it is
\* called in the two catch blocks only, which no return statement passes
record_error_calls(result) == 0

\* one call; MetricsCollector::record_decision runs on the success path only
ProcessDecisionJson(request_json, ml_score) ==
    LET result == process_decision_json(request_json, ml_score) IN
    /\ handler.requests < MaxRequests
    /\ handler' = [requests |-> handler.requests + 1,
                   request_json |-> request_json,
                   result |-> result,
                   decisions_total |-> IF result.error_code = "SUCCESS"
                                       THEN handler.decisions_total + 1
                                       ELSE handler.decisions_total,
                   errors_total |-> handler.errors_total + record_error_calls(result),
                   parsed |-> parse_attempted(request_json)]
    /\ UNCHANGED dec
    /\ UNCHANGED <<ruleVars, sysVars, pmVars, hrVars, screenVars, auxVars>>

NextHandler ==
    \E request_json \in Bodies, ml_score \in HandlerMlScores :
        ProcessDecisionJson(request_json, ml_score)

\* Request bodies are handled one after the other.
SpecHandler == Init /\ [][NextHandler]_vars

Next ==
    \/ \E d \in EvalDocIds : FileWrite(d)
    \/ FileRemove
    \/ \E t \in Loaders : LoadRead(t)
    \/ \E t \in Loaders : LoadFinish(t)
    \/ EnableHotReload
    \/ DisableHotReload
    \/ \E request \in Requests : EvalBegin("w1", request)
    \/ EvalRule("w1")
    \/ EvalReturn("w1")
    \/ reset_statistics

\* One worker evaluating while main and the watcher (re)load the rule file.
Spec == Init /\ [][Next]_vars

NextPar ==
    \/ \E d \in EvalDocIds : FileWrite(d)
    \/ LoadRead("main")
    \/ LoadFinish("main")
    \/ \E w \in Workers, request \in Requests : EvalBegin(w, request)
    \/ \E w \in Workers : EvalRule(w)
    \/ \E w \in Workers : EvalReturn(w)
    \/ reset_statistics

NextReject ==
    \/ \E d \in EvalDocIds : FileWrite(d)
    \/ LoadRead("main")
    \/ LoadFinish("main")
    \/ \E request \in RejectableRequests : EvalBegin("w1", request)
    \/ EvalRule("w1")
    \/ EvalReturn("w1")

\* One worker calls evaluate_rules with requests of every kind, before and
\* after main has loaded a rule file.
SpecReject == Init /\ [][NextReject]_vars

\* Several workers evaluating in parallel; main loads the rule file.
SpecPar == Init /\ [][NextPar]_vars

NextLoad ==
    \/ \E d \in DocIds : FileWrite(d)
    \/ FileRemove
    \/ \E t \in Loaders : LoadRead(t)
    \/ \E t \in Loaders : LoadFinish(t)
    \/ EnableHotReload
    \/ DisableHotReload

\* Loading only: main and the watcher load every kind of rule file.
SpecLoad == Init /\ [][NextLoad]_vars

(***************************************************************************)
(* Helpers for the properties.                                             *)
(***************************************************************************)
LoadableDocs == { d \in DocIds : Docs[d].wellformed /\ Docs[d].has_rules }

NextLive ==
    \/ \E d \in LoadableDocs : FileWrite(d)
    \/ \E t \in Loaders : LoadRead(t)
    \/ \E t \in Loaders : LoadFinish(t)
    \/ EnableHotReload

\* Valid rule files only, hot reload stays on once enabled.  The watcher
\* thread runs its loop for ever, so each of its steps is taken when it
\* stays possible; a load_rules call of main, once begun, returns.
SpecLive ==
    /\ Init /\ [][NextLive]_vars
    /\ WF_vars(LoadRead("watcher"))
    /\ WF_vars(LoadFinish("watcher"))
    /\ WF_vars(LoadFinish("main"))

Evaluating(w) == call[w].pc = "eval"
Complete(w) == call[w].pc = "eval" /\ call[w].idx > Len(call[w].enabled_rules)

ResultIds(w) ==
    { call[w].metrics.rule_results[i].rule_id :
        i \in 1..Len(call[w].metrics.rule_results) }

RuleOf(w, id) ==
    CHOOSE rule \in { call[w].enabled_rules[i] : i \in 1..Len(call[w].enabled_rules) } :
        rule.id = id

\* the load that thread t is finishing fails: parse error, file gone, or no
\* rules array
LoadFails(t) ==
    /\ loader[t].pc = "read"
    /\ \/ ~Docs[loader[t].content].wellformed
       \/ ~file.exists
       \/ ~Docs[loader[t].content].has_rules

LoadFinishStep(t) == loader[t].pc = "read" /\ loader'[t].pc = "idle"

(***************************************************************************)
(* C1.  Reload atomicity: the rules an evaluate_rules call works on are    *)
(* the enabled rules of one loaded configuration, whole, and every result  *)
(* it has produced is for a rule of that list; a swap during the call      *)
(* does not change the list.                                               *)
(***************************************************************************)
C1_ReloadAtomicity ==
    \A w \in Workers :
        Evaluating(w) =>
            /\ \E d \in LoadableDocs :
                  call[w].enabled_rules = get_enabled_rules(new_config(Docs[d]))
            /\ \A id \in ResultIds(w) :
                  \E i \in 1..Len(call[w].enabled_rules) :
                      call[w].enabled_rules[i].id = id

\* a call is under way with results behind it, and the active configuration
\* has been swapped to another rule list since the call copied its own
C1_Witness ==
    \E w \in Workers :
        /\ Evaluating(w)
        /\ call[w].idx > 1
        /\ call[w].enabled_rules # get_enabled_rules(current_config_)
        /\ \E d \in LoadableDocs : current_config_ = new_config(Docs[d])

(***************************************************************************)
(* C2.  After a reload every worker evaluates the expression text of the   *)
(* rule as the configuration it took gives it: each result of a call was   *)
(* computed from a compiled form of the expression that the call's rule    *)
(* list holds for that rule id (no compiled form of an older expression).  *)
(***************************************************************************)
C2_EvaluatesReloadedExpression ==
    \A w \in Workers :
        Evaluating(w) =>
            \A i \in 1..Len(call[w].metrics.rule_results) :
                LET result == call[w].metrics.rule_results[i] IN
                result.compiled_from = RuleOf(w, result.rule_id).expression

(***************************************************************************)
(* C3.  SystemConfig reload is all-or-nothing: a step after which the last *)
(* reload() has returned an error leaves the four sections as they were.   *)
(* (The other steps of the store never touch the sections, so only a       *)
(* failing reload can break this.)                                         *)
(***************************************************************************)
C3_ReloadAllOrNothing ==
    [][ sys_last' # "SUCCESS" =>
           UNCHANGED <<server_config_, feature_config_, logging_config_,
                       monitoring_config_>> ]_vars

(***************************************************************************)
(* C4.  A load or hot reload that fails (parse error, file gone, missing   *)
(* rules array) leaves the active RuleConfig, the statistics table and     *)
(* is_initialized() as they were.  (A load that fails because the file     *)
(* does not exist at the first test changes no variable at all.)           *)
(***************************************************************************)
C4_FailedLoadKeepsState ==
    [][ \A t \in Loaders :
          (LoadFails(t) /\ LoadFinishStep(t)) =>
              UNCHANGED <<current_config_, rule_stats_, initialized_>> ]_vars

\* a load of the document without a rules array has run to its end (its
\* modification time was recorded) on an engine that holds rules
C4_Witness ==
    /\ initialized_
    /\ current_config_.rules # << >>
    /\ file.exists
    /\ ~Docs[file.doc].has_rules /\ Docs[file.doc].wellformed
    /\ last_file_time_ = file.mtime
    /\ \A t \in Loaders : loader[t].pc = "idle"

C8_CountersMonotonic ==
    [][ \/ reset_statistics
        \/ \A id \in RuleIds :
              rule_stats_[id].present =>
                 /\ rule_stats_'[id].present
                 /\ rule_stats_'[id].evaluation_count >= rule_stats_[id].evaluation_count
                 /\ rule_stats_'[id].hit_count >= rule_stats_[id].hit_count ]_vars

\* r2 has been evaluated and hit, and the configuration that came from the
\* second document (where r2 is disabled) is now active
C8_Witness ==
    /\ current_config_ = new_config(DocB)
    /\ rule_stats_["r2"].evaluation_count > 0
    /\ rule_stats_["r2"].hit_count > 0
    /\ rule_stats_["r1"].evaluation_count > 0

(***************************************************************************)
(* C9.  A rule whose expression fails to compile does not abort the call:  *)
(* the step that meets it leaves rule_results and total_score alone,       *)
(* leaves a statistics entry for the rule with its counters unchanged and  *)
(* goes on with the next rule; and a finished call has, for every enabled  *)
(* rule, either a result or a failed compile.                              *)
(***************************************************************************)
CompileFailsAt(w) ==
    /\ Evaluating(w)
    /\ call[w].idx <= Len(call[w].enabled_rules)
    /\ ~tl_compiled_rules[w][call[w].enabled_rules[call[w].idx].id].present
    /\ ~compile_rule(call[w].enabled_rules[call[w].idx].expression)

EveryRuleHandled(w) ==
    Complete(w) =>
        \A i \in 1..Len(call[w].enabled_rules) :
            LET rule == call[w].enabled_rules[i] IN
            \/ rule.id \in ResultIds(w)
            \/ /\ \E k \in 1..Len(call[w].skipped) : call[w].skipped[k] = rule.id
               /\ ~compile_rule(rule.expression)

C9_CompileFailureContained ==
    [][ \A w \in Workers :
          /\ (CompileFailsAt(w) /\ call'[w].idx = call[w].idx + 1) =>
                LET id == call[w].enabled_rules[call[w].idx].id IN
                /\ call'[w].pc = "eval"
                /\ call'[w].enabled_rules = call[w].enabled_rules
                /\ call'[w].metrics = call[w].metrics
                /\ id \notin ResultIds(w)'
                /\ rule_stats_'[id].present
                /\ rule_stats_'[id].evaluation_count = rule_stats_[id].evaluation_count
                /\ rule_stats_'[id].hit_count = rule_stats_[id].hit_count
          /\ EveryRuleHandled(w)' ]_vars

\* a finished call that skipped r3 for its compile failure and went on to
\* evaluate the rule after it
C9_Witness ==
    \E w \in Workers :
        /\ Complete(w)
        /\ call[w].skipped = << "r3" >>
        /\ call[w].enabled_rules[1].id = "r3"
        /\ Len(call[w].metrics.rule_results) = 1
        /\ call[w].metrics.rule_results[1].triggered
        /\ rule_stats_["r3"] = ZeroStats

(***************************************************************************)
(* C10.  Determinism per request: under the rule list a call took, whether *)
(* a rule is reported as triggered depends only on the request, i.e. it is *)
(* the value of the evaluated expression on the request's own context      *)
(* values, on a fresh worker and on one that evaluated other requests.     *)
(***************************************************************************)
C10_DeterministicPerRequest ==
    \A w \in Workers :
        Evaluating(w) =>
            \A i \in 1..Len(call[w].metrics.rule_results) :
                LET result == call[w].metrics.rule_results[i]
                    compiled == parser_compile(result.compiled_from)
                    context == from_transaction(call[w].request)
                IN result.triggered =
                      Triggered(ExprValue(compiled, context[compiled.var]))

ReturnedFrom(op) == dec.phase = "return" /\ dec.op = op

(***************************************************************************)
(* C5.  The decision follows the thresholds: for every score and           *)
(* thresholds, make_decision gives APPROVE exactly when score < approve,   *)
(* DECLINE exactly when score >= review, and REVIEW exactly when neither;  *)
(* the handler does the same with thresholds 30 and 70, except that a      *)
(* high-risk request (customer risk_score > 70 or amount > 10000) is       *)
(* declined whatever its score.                                            *)
(***************************************************************************)
FollowsThresholds(decision, score, approve, review) ==
    /\ decision = "APPROVE" <=> score < approve
    /\ decision = "DECLINE" <=> score >= review
    /\ decision = "REVIEW" <=> ~(score < approve) /\ ~(score >= review)

C5_ThresholdDecision ==
    /\ ReturnedFrom("make_decision") =>
         FollowsThresholds(dec.output.decision, dec.input.score,
                           dec.input.thresholds.approve_threshold,
                           dec.input.thresholds.review_threshold)
    /\ ReturnedFrom("process_risk_decision") =>
         IF dec.input.request.risk_score > 70 \/ dec.input.request.amount > 10000
         THEN dec.output.decision = "DECLINE"
         ELSE FollowsThresholds(dec.output.decision, dec.output.risk_score, 30, 70)

(***************************************************************************)
(* C6.  Every risk score lies in [0, 100]: the score of a decision the     *)
(* handler returns, and the value of calculate_final_score.                *)
(***************************************************************************)
C6_ScoreInRange ==
    /\ ReturnedFrom("process_risk_decision") =>
         dec.output.risk_score >= 0 /\ dec.output.risk_score <= 100
    /\ ReturnedFrom("calculate_final_score") =>
         dec.output.num >= 0 /\ dec.output.num <= 100 * dec.output.den

\* both functions have returned a score that the clamp had to cut: the
\* handler above 100, the final score below 0 or above 100
C6_Witness ==
    \/ ReturnedFrom("process_risk_decision") /\ dec.output.unclamped > 100
    \/ /\ ReturnedFrom("calculate_final_score")
       /\ \/ dec.output.unclamped < 0
          \/ dec.output.unclamped > 100 * dec.output.den

(***************************************************************************)
(* C11.  The thresholds of the active RuleConfig are valid: both lie in    *)
(* [0, 100] and approve_threshold < review_threshold, whatever file was    *)
(* loaded.                                                                 *)
(***************************************************************************)
C11_ActiveThresholdsValid ==
    /\ current_config_.thresholds.approve_threshold >= 0
    /\ current_config_.thresholds.review_threshold <= 100
    /\ current_config_.thresholds.approve_threshold
          < current_config_.thresholds.review_threshold

(***************************************************************************)
(* C12.  The rule ids of the active RuleConfig are unique: no two rules of *)
(* get_current_config().rules share an id.                                 *)
(***************************************************************************)
C12_ActiveRuleIdsUnique ==
    \A i, j \in 1..Len(current_config_.rules) :
        current_config_.rules[i].id = current_config_.rules[j].id => i = j

\* what match_text returns for every text, unfiltered
AllMatches(m) == [text \in Texts |-> match_text(m, text, "").matches]
NoMatches(m) == \A text \in Texts : match_text(m, text, "") = EmptyResults

(***************************************************************************)
(* C13.  The ids of the loaded patterns are unique: no two patterns of     *)
(* get_loaded_patterns() share an id, in particular not a blacklist and a  *)
(* whitelist pattern.                                                      *)
(***************************************************************************)
C13_PatternIdsUnique ==
    \A i, j \in 1..Len(matcher.loaded_patterns_) :
        matcher.loaded_patterns_[i].id = matcher.loaded_patterns_[j].id => i = j

C15_FailedCompileKeepsDatabase ==
    [][ ( /\ matcher.initialized_
          /\ pm_last'.op = "compile_patterns"
          /\ pm_last'.error_code # "SUCCESS" )
        => AllMatches(matcher') = AllMatches(matcher) ]_vars

\* no thread is inside enable_hot_reload or disable_hot_reload
NoCallInProgress == \A c \in Controllers : ctl[c].pc = "idle"

WatcherEvents == {"watcher", "swap", "reload failed", "callback"}

C17_EnableDisableIdempotent ==
    /\ Cardinality(Running) <= 1
    /\ ~hr.terminate_called
    /\ NoCallInProgress => (hr.hot_reload_enabled_ <=> Running # {})

\* C18: SystemConfig's observer is called only by a watcher round whose
\* reload succeeded, with the configuration that is active after it; a
\* watcher round whose reload fails calls no observer and leaves the active
\* configuration as it was.
C18_ObserverAfterSuccessfulSwap ==
    [][ /\ sys_observer'.configs # sys_observer.configs =>
              /\ sys_observer'.by_watcher
              /\ sys_last' = "SUCCESS"
              /\ sys_observer'.configs = Append(sys_observer.configs, Sections')
        /\ (sys_observer'.by_watcher /\ sys_last' # "SUCCESS") =>
              /\ sys_observer'.configs = sys_observer.configs
              /\ Sections' = Sections ]_vars

\* C19: when the matcher reports a blacklist hit on the request's ip the rule
\* context of that request has ip_blacklist_match = 1 (0 otherwise), the rule
\* testing ip_blacklist_match triggers and the decision is DECLINE.
C19_BlacklistHitDeclines ==
    screen # NotScreened =>
        /\ screen.ip_blacklist_match = (IF screen.hit THEN 1 ELSE 0)
        /\ screen.hit => screen.triggered /\ screen.decision = "DECLINE"

\* the body is non-empty, at most 8 KB, parses, converts and is valid
AcceptableBody(request_json) ==
    /\ request_json.length > 0
    /\ request_json.length <= 8192
    /\ request_json.wellformed
    /\ TransactionRequest_from_json(request_json).error_code = "SUCCESS"
    /\ TransactionRequest_is_valid(request_json)

\* C20: process_decision_json returns a decision exactly for a body that is
\* non-empty, at most 8 KB, parses, converts and passes is_valid, and then
\* records one decision; for every other body it returns an error code with
\* a non-empty message, no decision, and records no decision.
C20_DecisionIffAcceptable ==
    [][ handler'.requests # handler.requests =>
          IF AcceptableBody(handler'.request_json)
          THEN /\ handler'.result.error_code = "SUCCESS"
               /\ handler'.result.decision \in {"APPROVE", "REVIEW", "DECLINE"}
               /\ handler'.decisions_total = handler.decisions_total + 1
          ELSE /\ handler'.result.error_code \notin {"SUCCESS", "NONE"}
               /\ handler'.result.error_message # ""
               /\ handler'.result.decision = "NONE"
               /\ handler'.decisions_total = handler.decisions_total ]_vars

\* a body of exactly 8192 bytes was decided and a malformed one refused
C20_Witness ==
    /\ handler.requests = 2
    /\ handler.request_json.length = kMaxRequestSize
    /\ handler.result.error_code = "SUCCESS"
    /\ handler.decisions_total = 1

\* C21: every error outcome of process_decision_json increments the error
\* counter exactly once (and a success leaves it alone).
C21_ErrorCounted ==
    [][ handler'.requests # handler.requests =>
          handler'.errors_total =
              handler.errors_total
              + (IF handler'.result.error_code = "SUCCESS" THEN 0 ELSE 1) ]_vars

\* C22: a body longer than 8192 bytes is refused with INVALID_REQUEST and is
\* not parsed; a body of exactly 8192 bytes is not refused for its size: it
\* is parsed, and its result is that of the same body with 100 bytes.
C22_SizeLimit ==
    [][ handler'.requests # handler.requests =>
          LET request_json == handler'.request_json IN
          /\ request_json.length > 8192 =>
                /\ handler'.result.error_code = "INVALID_REQUEST"
                /\ handler'.result.error_message = "Request body too large"
                /\ ~handler'.parsed
          /\ request_json.length = 8192 =>
                /\ handler'.parsed
                /\ \A ml_score \in HandlerMlScores :
                      process_decision_json(request_json, ml_score) =
                      process_decision_json([request_json EXCEPT !.length = 100],
                                            ml_score) ]_vars

\* a body of 8193 bytes that would otherwise be decided was refused, after a
\* body of 8192 bytes was decided
C22_Witness ==
    /\ handler.requests = 2
    /\ handler.decisions_total = 1
    /\ handler.request_json.length = 8193
    /\ AcceptableBody([handler.request_json EXCEPT !.length = 8192])
    /\ handler.result.error_code = "INVALID_REQUEST"
    /\ ~handler.parsed

\* C23: for the new-account request (amount 500, USD, risk score 40, account
\* age 10 days, public address) every result of process_risk_decision has a
\* risk score in [30, 70) and the decision REVIEW.
C23_NewAccountReview ==
    (/\ dec.phase = "return"
     /\ dec.op = "process_risk_decision"
     /\ dec.input.request = NewAccountRequest)
    => /\ dec.output.risk_score >= 30
       /\ dec.output.risk_score < 70
       /\ dec.output.decision = "REVIEW"

\* the weights of a rule list never increase along the list
ByWeightDescending(rules) ==
    \A i, j \in 1..Len(rules) : i < j => rules[i].weight >= rules[j].weight

\* the rules a call has gone through so far that were not skipped for a
\* compile failure, in the order of its rule list
RECURSIVE Evaluated(_, _, _)
Evaluated(rules, n, skipped) ==
    IF n = 0 THEN << >>
    ELSE Evaluated(rules, n - 1, skipped)
         \o (IF \E k \in 1..Len(skipped) : skipped[k] = rules[n].id
             THEN << >> ELSE << rules[n] >>)

\* C24: the active rule list is sorted by weight, non-increasing; a call
\* goes once through the enabled rules in that order, so rule_results holds
\* one result per rule gone through (compile failures left out), in order of
\* non-increasing weight, and none for a disabled rule.
C24_PriorityOrder ==
    /\ ByWeightDescending(current_config_.rules)
    /\ \A w \in Workers :
          Evaluating(w) =>
             LET rules == call[w].enabled_rules
                 results == call[w].metrics.rule_results
                 evaluated == Evaluated(rules, call[w].idx - 1, call[w].skipped)
             IN /\ ByWeightDescending(rules)
                /\ \A i \in 1..Len(rules) : rules[i].enabled
                /\ Len(results) = Len(evaluated)
                /\ \A i \in 1..Len(results) : results[i].rule_id = evaluated[i].id

\* a call has gone through two rules of different weight, the heavier first,
\* while the active configuration also holds a disabled rule
C24_Witness ==
    \E w \in Workers :
        /\ Complete(w)
        /\ Len(call[w].metrics.rule_results) = 2
        /\ RuleOf(w, call[w].metrics.rule_results[1].rule_id).weight
              > RuleOf(w, call[w].metrics.rule_results[2].rule_id).weight
        /\ \E i \in 1..Len(current_config_.rules) : ~current_config_.rules[i].enabled

\* the results restricted to the matches of one category
OfCategory(results, category) ==
    [matches |-> SelectSeq(results.matches, LAMBDA m : m.category = category),
     blacklist_matches |->
         SelectSeq(results.blacklist_matches, LAMBDA m : m.category = category),
     whitelist_matches |->
         SelectSeq(results.whitelist_matches, LAMBDA m : m.category = category)]

MatchLists(results) ==
    [matches |-> results.matches,
     blacklist_matches |-> results.blacklist_matches,
     whitelist_matches |-> results.whitelist_matches]

\* C25: with a non-empty category filter match_text and match_batch return
\* exactly the matches of the unfiltered call whose pattern has that
\* category, in matches, blacklist_matches and whitelist_matches alike.
C25_CategoryFilter ==
    \A category \in Categories \ {""} :
        /\ \A text \in Texts :
              MatchLists(match_text(matcher, text, category))
                  = OfCategory(match_text(matcher, text, ""), category)
        /\ \A texts \in TextBatches :
              MatchLists(match_batch(matcher, texts, category))
                  = OfCategory(match_batch(matcher, texts, ""), category)

\* a filtered batch call has returned a match while the unfiltered call on
\* the same matcher also finds a match of the other category
C25_Witness ==
    /\ pm_last.op = "match_batch"
    /\ pm_last.results = match_batch(matcher, << "10.0.0.1", "8.8.8.8" >>, "whitelist")
    /\ pm_last.results.matches # << >>
    /\ match_batch(matcher, << "10.0.0.1", "8.8.8.8" >>, "").blacklist_matches # << >>

\* C27: calculate_match_score of the results a call returned is
\* max(0, 10 * blacklist hits - 5 * whitelist hits), so never negative.
C27_MatchScore ==
    LET blacklist_hits == Len(pm_last.results.blacklist_matches)
        whitelist_hits == Len(pm_last.results.whitelist_matches)
        expected == 10 * blacklist_hits - 5 * whitelist_hits
    IN /\ pm_last.match_score = (IF expected > 0 THEN expected ELSE 0)
       /\ pm_last.match_score >= 0

\* a call has returned two whitelist hits and no blacklist hit: the sum is
\* -10 and the score 0
C27_Witness ==
    /\ pm_last.op = "match_batch"
    /\ Len(pm_last.results.whitelist_matches) = 2
    /\ Len(pm_last.results.blacklist_matches) = 0
    /\ pm_last.match_score = 0

\* C28: the configuration file as it is now has been loaded without error
\* only if the numeric options its [server] section gives are within their
\* ranges as written (port 1..65535, threads 1..64), and then the active
\* value is the written one.
C28_RangeValidation ==
    (/\ sys_file.exists
     /\ sys_file.table.wellformed
     /\ sys_file.table.server.present
     /\ last_modified_ = sys_file.mtime)
    => /\ sys_file.table.server.port \in 1..65535
       /\ sys_file.table.server.threads \in 1..64
       /\ server_config_.port = sys_file.table.server.port

\* C29: a request is accepted only if the document's merchant_category is in
\* 1..65535, and the merchant_category of the parsed transaction then equals
\* the document's value.
C29_MerchantCategoryFaithful ==
    handler.result.error_code = "SUCCESS" =>
        /\ handler.request_json.merchant_category \in 1..65535
        /\ TransactionInfo_merchant_category(handler.request_json)
               = handler.request_json.merchant_category

\* C30: get_cache_key returns "features:", the customer id, ":", the merchant
\* id, ":" and the decimal digits of floor(timestamp_ms / 300000); two
\* requests of one customer and merchant get the same key exactly if their
\* timestamps lie in the same five-minute bucket.
C30_CacheKeyBucket ==
    (dec.phase = "return" /\ dec.op = "get_cache_key") =>
        LET a == dec.input.first
            b == dec.input.second
        IN /\ dec.output.first =
                  <<"features:", a.customer_id, ":", a.merchant_id, ":">>
                      \o stream_integer(a.timestamp \div 300000)
           /\ (a.customer_id = b.customer_id /\ a.merchant_id = b.merchant_id) =>
                  ((dec.output.first = dec.output.second)
                      <=> (a.timestamp \div 300000 = b.timestamp \div 300000))

\* the last millisecond of a bucket got the key of the bucket's first one,
\* and that key ends in the bucket number 9
C30_Witness ==
    /\ dec.phase = "return" /\ dec.op = "get_cache_key"
    /\ dec.input.first.timestamp = 2999999
    /\ dec.input.second.timestamp = 3000000
    /\ dec.input.first.customer_id = dec.input.second.customer_id
    /\ dec.input.first.merchant_id = dec.input.second.merchant_id
    /\ dec.output.first = <<"features:", "c1", ":", "m2", ":", "9">>
    /\ dec.output.second = <<"features:", "c1", ":", "m2", ":", "1", "0">>

\* the text holds the characters of the pattern, as they are, somewhere
ContainsLiterally(text, pattern) ==
    \E i \in 0..Len(text) :
        /\ i + Len(pattern) <= Len(text)
        /\ SubSeq(text, i + 1, i + Len(pattern)) = pattern

\* C26: for a compiled exact pattern and a text that contains the pattern
\* literally, the matches hold one whose matched_text is the pattern and
\* whose offsets delimit that substring of the text.
C26_ExactMatch ==
    (/\ dec.phase = "return" /\ dec.op = "match_text"
     /\ ContainsLiterally(dec.input.text, dec.input.pattern))
    => \E k \in 1..Len(dec.output.matches) :
          LET m == dec.output.matches[k] IN
          /\ m.matched_text = dec.input.pattern
          /\ SubSeq(dec.input.text, m.start_offset + 1, m.end_offset)
                 = dec.input.pattern

\* C31: a getter that runs concurrently with reload() returns a section
\* value that is entirely one the section held before or after an assignment
\* by reload(), never one with members of both.
C31_WholeSection ==
    rw.get.pc = "returned" => rw.get.copy \in rw.get.whole

\* a getter called before reload() assigned the section returned the new
\* value of the section
C31_Witness ==
    /\ rw.get.pc = "returned"
    /\ rw.get.section = "server"
    /\ rw.get.whole = {DefaultServerConfig, [port |-> 9090, threads |-> 4]}
    /\ rw.get.copy = [port |-> 9090, threads |-> 4]

\* C32: a constructed PatternMatcher has a backend; with preference AUTO it
\* is Hyperscan whenever that backend is compiled in and available and
\* std::regex otherwise; get_active_backend names the backend in use.
C32_BackendSelection ==
    (dec.phase = "return" /\ dec.op = "PatternMatcher") =>
        /\ dec.output.backend_ \in {"Hyperscan", "std::regex"}
        /\ dec.input.backend = "AUTO" =>
              dec.output.backend_ =
                  (IF dec.input.ENABLE_HYPERSCAN /\ dec.input.is_available
                   THEN "Hyperscan" ELSE "std::regex")
        /\ dec.output.active_backend_ =
              (IF dec.output.backend_ = "Hyperscan" THEN "HYPERSCAN" ELSE "STD_REGEX")

\* AUTO in a build with an available Hyperscan, and the matcher was used
C32_Witness ==
    /\ dec.phase = "return" /\ dec.op = "PatternMatcher"
    /\ dec.input.backend = "AUTO"
    /\ dec.input.ENABLE_HYPERSCAN /\ dec.input.is_available
    /\ dec.output.active_backend_ = "HYPERSCAN"
    /\ Len(matcher.loaded_patterns_) = 1

\* what the wildcard line stands for: * any character sequence, ? exactly
\* one character, every other character itself, over the whole text
RECURSIVE WildcardStandsFor(_, _)
WildcardStandsFor(line, text) ==
    IF line = << >> THEN text = << >>
    ELSE IF Head(line) = "*"
    THEN \E k \in 0..Len(text) :
            WildcardStandsFor(Tail(line), SubSeq(text, k + 1, Len(text)))
    ELSE /\ text # << >>
         /\ Head(line) = "?" \/ Head(line) = Head(text)
         /\ WildcardStandsFor(Tail(line), Tail(text))

\* C33: a line classified as a wildcard matches a text exactly if the text
\* is the line with * replaced by some character sequence and ? by some one
\* character, every other character of the line standing for itself.
C33_WildcardMatch ==
    (dec.phase = "return" /\ dec.op = "match_line" /\ dec.output.type = "wildcard")
    => (dec.output.matched <=> WildcardStandsFor(dec.input.line, dec.input.text))

\* the characters up to and including the k-th dot
RECURSIVE UpToDot(_, _)
UpToDot(chars, k) ==
    IF k = 0 \/ Find(chars, ".", 0) = -1 THEN << >>
    ELSE LET dot == Find(chars, ".", 0) IN
         SubSeq(chars, 1, dot + 1) \o UpToDot(SubSeq(chars, dot + 2, Len(chars)), k - 1)

\* the octets of the line that its prefix length fixes: three from /24 on,
\* two from /16 on, else one
FixedOctets(line) ==
    LET n == digits_value(SubSeq(line, Find(line, "/", 0) + 2, Len(line))) IN
    IF n >= 24 THEN 3 ELSE IF n >= 16 THEN 2 ELSE 1

\* C34: the pattern of an IPv4 CIDR line a.b.c.d/n matches an address
\* exactly if the address has the line's first three octets (n >= 24), first
\* two octets (n in 16..23) or first octet (n in 8..15).
C34_CidrMatch ==
    (dec.phase = "return" /\ dec.op = "match_line" /\ dec.input.line \in CidrLines)
    => (dec.output.matched <=>
            UpToDot(dec.input.text, FixedOctets(dec.input.line))
                = UpToDot(dec.input.line, FixedOctets(dec.input.line)))

\* C35: a rule file that is changed, while hot reload is enabled, to a valid
\* configuration and left unchanged from then on is eventually, and from
\* then on, the active configuration.
C35_ReloadLiveness ==
    \A d \in LoadableDocs :
        (/\ <>(hot_reload_enabled_ /\ file.doc # d)
         /\ <>[](hot_reload_enabled_ /\ file.exists /\ file.doc = d))
            => <>[](current_config_ = new_config(Docs[d]))

\* the threads of S wait, each for a mutex that a thread of S holds
WaitForEachOther(S) ==
    \A t \in S :
        /\ Waits(t)
        /\ LET mutex == mx[Head(mx.steps[t])[2]] IN
           (mutex.exclusive \cup mutex.shared) \cap S # {}

\* C36: no interleaving of evaluate_rules, get_current_config,
\* get_rule_statistics, reset_statistics, load_rules and the hot-reload
\* worker with its observer reaches a state in which threads wait for ever
\* on config_mutex_ or stats_mutex_: no set of waiting threads waits only
\* for mutexes held inside the set.
C36_NoDeadlock ==
    \A S \in SUBSET MxThreads : S # {} => ~WaitForEachOther(S)

\* the watcher holds both mutexes inside a load while one caller waits for
\* config_mutex_ and the other for stats_mutex_
C36_Witness ==
    /\ mx.config_mutex_.exclusive = {"watcher"}
    /\ mx.stats_mutex_.exclusive = {"watcher"}
    /\ Waits("w1") /\ Head(mx.steps["w1"]) = <<"lock_shared", "config_mutex_">>
    /\ Waits("main") /\ Head(mx.steps["main"]) = <<"lock", "stats_mutex_">>

\* C37: the thread's current trace id is the id of the innermost scope
\* alive, and when a scope is destroyed it is the id the thread had just
\* before that scope was created, for both constructors and any depth.
C37_ProperNesting ==
    [][ /\ trace'.scopes # << >> =>
              trace'.current_trace_id_ = trace'.scopes[Len(trace'.scopes)].trace_id_
        /\ Len(trace'.scopes) < Len(trace.scopes) =>
              trace'.current_trace_id_ = trace.scopes[Len(trace.scopes)].entered_with
      ]_vars

\* C38: when a load_rules or reload attempt fails (JSON parse error, file
\* gone, missing rules array), get_last_error() returns a non-empty message
\* afterwards; it is empty as long as no load has failed.
C38_LastErrorAfterFailure ==
    [][ \A t \in Loaders :
            (LoadFails(t) /\ LoadFinishStep(t)) => last_error_' # "" ]_vars

RECURSIVE SumContribution(_)
SumContribution(rule_results) ==
    IF rule_results = << >> THEN 0
    ELSE rule_results[1].contribution_score + SumContribution(Tail(rule_results))

\* C39: the metrics evaluate_rules returns are consistent: total_score is
\* the sum of contribution_score over rule_results, rules_triggered is the
\* number of triggered results, a triggered result contributes its rule's
\* weight and any other 0, and rules_evaluated is the number of results.
C39_MetricsConsistent ==
    \A w \in Workers :
        Complete(w) =>
            LET metrics == call[w].metrics
                results == metrics.rule_results
            IN /\ metrics.total_score = SumContribution(results)
               /\ metrics.rules_triggered =
                      Cardinality({ i \in 1..Len(results) : results[i].triggered })
               /\ \A i \in 1..Len(results) :
                      results[i].contribution_score =
                          IF results[i].triggered
                          THEN RuleOf(w, results[i].rule_id).weight ELSE 0
               /\ metrics.rules_evaluated = Len(results)

\* the same without the count of evaluated rules
C39_ScoresConsistent ==
    \A w \in Workers :
        Complete(w) =>
            LET metrics == call[w].metrics
                results == metrics.rule_results
            IN /\ metrics.total_score = SumContribution(results)
               /\ metrics.rules_triggered =
                      Cardinality({ i \in 1..Len(results) : results[i].triggered })
               /\ \A i \in 1..Len(results) :
                      results[i].contribution_score =
                          IF results[i].triggered
                          THEN RuleOf(w, results[i].rule_id).weight ELSE 0

\* the cases in which evaluate_rules cannot evaluate a request
CannotEvaluate(request) ==
    \/ ~initialized_
    \/ request.customer_id = ""
    \/ request.merchant_id = ""
    \/ request.currency = ""
    \/ request.amount <= 0

\* C40: evaluate_rules called before a successful load_rules, or with a
\* request whose customer_id, merchant_id or currency is empty or whose
\* amount is not positive, returns metrics with no rule results,
\* total_score 0 and rules_triggered 0, and no step of the call changes the
\* per-rule statistics or the active RuleConfig.
C40_RejectedCallFrame ==
    [][ \A w \in Workers :
          /\ (call[w].pc = "idle" /\ call'[w].pc # "idle"
                /\ CannotEvaluate(call'[w].request)) =>
                 /\ call'[w].pc = "rejected"
                 /\ call'[w].metrics.rule_results = << >>
                 /\ call'[w].metrics.total_score = 0
                 /\ call'[w].metrics.rules_triggered = 0
                 /\ rule_stats_' = rule_stats_
                 /\ current_config_' = current_config_
          /\ (call[w].pc = "rejected" /\ call'[w] # call[w]) =>
                 /\ call'[w].pc = "idle"
                 /\ rule_stats_' = rule_stats_
                 /\ current_config_' = current_config_
      ]_vars

\* a loaded engine with rules has rejected a request for its empty currency
C40_Witness ==
    /\ initialized_
    /\ get_enabled_rules(current_config_) # << >>
    /\ call["w1"].pc = "rejected"
    /\ call["w1"].request.currency = ""
    /\ call["w1"].request.amount > 0

====
